---- MODULE Spec2Model ----
(***************************************************************************)
(* A model of the DaVinci Resolve bridge: the Connector (class ResolveAPI  *)
(* of resolve_api.py), the Bridge (the resources and tools of server.py),  *)
(* the Python runtime state they read and write (sys.path, sys.modules)    *)
(* and the external application they forward to.                           *)
(*                                                                         *)
(* Every Connector method and every handler is an operator from a call    *)
(* frame to a call frame.  A frame carries the Connector's handle cache,   *)
(* the runtime state, the external application's current project, the     *)
(* responses the external application gives during this call, the log of   *)
(* external calls made, the exception in flight and the value returned.    *)
(***************************************************************************)
EXTENDS Integers, Sequences, FiniteSets, TLC

\* ------------------------------------------------------------------ bounds
\* Projects of the external application are named 1..NProj.
NProj == 2
\* Requests the event loop has in flight at once occupy the slots 1..NSlot.
NSlot == 2

\* ------------------------------------------------------------------ values
\* Python's None, for every handle-typed value.
None == 0
\* The one object behind each singleton handle (application, project
\* manager, media storage, compositing engine).
Obj == 1

Projects == 1..NProj

\* Values: t is the Python type (or the kind of handle), n the number /
\* handle identity / formatted argument, s the text of a string, l the
\* names of the elements of a list.
RNone == [t |-> "None", n |-> 0, s |-> "", l |-> <<>>]
RBool(b) == [t |-> "bool", n |-> IF b THEN 1 ELSE 0, s |-> "", l |-> <<>>]
RInt(k) == [t |-> "int", n |-> k, s |-> "", l |-> <<>>]
\* A list of named objects (clips, folders, albums, stills), by their names.
RList(names) == [t |-> "list", n |-> Len(names), s |-> "", l |-> names]
RObj(kind, k) == IF k = None THEN RNone ELSE [t |-> kind, n |-> k, s |-> "", l |-> <<>>]
RStr(str) == [t |-> "str", n |-> 0, s |-> str, l |-> <<>>]
\* A formatted string: the template, and the values formatted into it.
RFmt(str, k) == [t |-> "str", n |-> k, s |-> str, l |-> <<>>]

\* Python truthiness of a returned value.
Truthy(r) ==
    CASE r.t = "None" -> FALSE
      [] r.t \in {"bool", "int", "list"} -> r.n # 0
      [] r.t = "str" -> r.s # ""
      [] OTHER -> TRUE

\* ------------------------------------------------------------------ state
VARIABLES
    \* the Connector's handle cache (ResolveAPI.__init__)
    resolve, fusion, project_manager, current_project, media_storage, media_pool,
    \* the Python runtime
    sys_path,       \* the module search path, as the set of directories on it
    sys_modules,    \* TRUE once DaVinciResolveScript has been imported
    phase,          \* "start", "serving", or "crashed" (server.py failed to load)
    \* the host
    system,         \* platform.system()
    environ,        \* os.environ["RESOLVE_SCRIPT_PATH"], or "None"
    fs,             \* per directory: "absent", "dir" (exists, no module), "module"
    \* the external application
    appRunning,     \* scriptapp("Resolve") returns a handle
    pmAvail,        \* GetProjectManager() returns a project manager
    extProject,     \* the application's current project, or None
    \* the requests the event loop of mcp.run() has in flight
    tasks,          \* per request slot: the handler, its argument, how far it got
    writer,         \* per cached handle: the slot of the request that last wrote it
    \* the last operation
    kind,           \* "init", "env", "constructor", "method", "function",
                    \* "resource" or "tool"
    op,             \* its name
    arg,            \* the page or clip name, or the type of the folder, it was
                    \* called with; "" without one
    pre,            \* the handle cache when it started
    ret,            \* the value it returned
    exc,            \* the exception that left it, or "none"
    calls,          \* the external calls it made, in order
    ans             \* the value it last obtained: the last answer of the external
                    \* application, or the element a lookup by name selected

cacheVars == <<resolve, fusion, project_manager, current_project, media_storage, media_pool>>
runtimeVars == <<sys_path, sys_modules, phase>>
hostVars == <<system, environ, fs>>
extVars == <<appRunning, pmAvail, extProject>>
obsVars == <<kind, op, arg, pre, ret, exc, calls, ans>>
dispatchVars == <<tasks, writer>>
vars == <<cacheVars, runtimeVars, hostVars, extVars, dispatchVars, obsVars>>

\* The Connector's handle cache as one value.
Cache ==
    [resolve |-> resolve, fusion |-> fusion, project_manager |-> project_manager,
     current_project |-> current_project, media_storage |-> media_storage,
     media_pool |-> media_pool]

EmptyCache ==
    [resolve |-> None, fusion |-> None, project_manager |-> None,
     current_project |-> None, media_storage |-> None, media_pool |-> None]

\* ------------------------------------------------------------------ host
Systems == {"Windows", "Darwin", "Linux", "Java"}
Paths == {"win", "mac_sys", "mac_user", "linux", "custom"}

\* base_paths.get(system, []) if system != "Darwin" else base_paths["Darwin"],
\* as the list the loop walks.
BasePaths(sys) ==
    CASE sys = "Windows" -> <<"win">>
      [] sys = "Darwin" -> <<"mac_sys", "mac_user">>
      [] sys = "Linux" -> <<"linux">>
      [] OTHER -> <<>>

Range(seq) == {seq[i] : i \in 1..Len(seq)}

\* os.path.exists(path)
Exists(p) == fs[p] # "absent"

\* ------------------------------------------------------------------ frames
\* A call frame.  bad names the external method that raises during this
\* call ("none": nothing raises); xs are the values the external
\* application returns to the calls whose answer is not fixed by its state,
\* in order; x is the last such answer.
Frame(bad, xs) ==
    [c |-> Cache, path |-> sys_path, mods |-> sys_modules, xp |-> extProject,
     bad |-> bad, xs |-> xs, x |-> RNone,
     calls |-> <<>>, exc |-> "none", ret |-> RNone, val |-> "None"]

\* The frames a call can start in.
Handles == {None} \cup Projects
Values == [t : STRING, n : Int, s : STRING, l : Seq(STRING)]
Frames ==
    [c : [resolve : Handles, fusion : Handles, project_manager : Handles,
          current_project : Handles, media_storage : Handles, media_pool : Handles],
     path : SUBSET Paths, mods : BOOLEAN, xp : Handles,
     bad : STRING, xs : Seq(Values), x : {RNone},
     calls : {<<>>}, exc : {"none"}, ret : {RNone}, val : {"None"}]

Raised(s) == s.exc # "none"

\* An external call of method m on the object target with the arguments
\* args: logged, and raising if it is the failing one.
CallWith(s, m, target, args) ==
    IF s.bad = m
    THEN [s EXCEPT !.calls = Append(@, <<m, target, args>>), !.exc = "ExternalError"]
    ELSE [s EXCEPT !.calls = Append(@, <<m, target, args>>)]

Call(s, m, target) == CallWith(s, m, target, <<>>)

\* An external call whose answer is the next of xs (None when xs is used up).
Ask(s, m, target, args) ==
    LET s1 == CallWith(s, m, target, args)
    IN IF Raised(s1) THEN s1
       ELSE IF s.xs = <<>> THEN [s1 EXCEPT !.x = RNone]
       ELSE [s1 EXCEPT !.x = Head(s.xs), !.xs = Tail(s.xs)]

\* except Exception: the exception is logged and dropped.
Caught(s) == [s EXCEPT !.exc = "none"]

\* An attribute access on None, or on an object that lacks the attribute.
AttributeError(s) == [s EXCEPT !.exc = "AttributeError"]

Return(s, r) == [s EXCEPT !.ret = r]

\* ------------------------------------------------------------------ Connector
\* _find_scripting_module: the path found in val ("None" when none is).
FindInBasePaths(s, paths) ==
    LET found == {j \in 1..Len(paths) : Exists(paths[j]) /\ paths[j] \notin s.path}
        first == CHOOSE j \in found : \A k \in found : j <= k
    IN IF found = {}
       THEN [s EXCEPT !.val = "None"]
       ELSE [s EXCEPT !.path = @ \cup {paths[first]}, !.val = paths[first]]

_find_scripting_module(s) ==
    IF environ # "None" /\ Exists(environ)
    THEN [s EXCEPT !.val = environ]
    ELSE FindInBasePaths(s, BasePaths(system))

\* import DaVinciResolveScript: found in sys.modules, or in a directory of sys.path.
Importable(s) == s.mods \/ \E p \in s.path : fs[p] = "module"

\* The derivation without the media pool: the cached media pool is left as
\* it was.
DeriveHandles_nopool(s) ==
    LET s1 == Call(s, "GetProjectManager", Obj)
        pm == IF pmAvail THEN Obj ELSE None
        s2 == [s1 EXCEPT !.c.project_manager = pm]
        s3 == IF pm = None THEN AttributeError(s2) ELSE Call(s2, "GetCurrentProject", Obj)
        s4 == [s3 EXCEPT !.c.current_project = s3.xp]
        s5 == Call(s4, "GetMediaStorage", Obj)
        s6 == [s5 EXCEPT !.c.media_storage = Obj]
        s7 == Call(s6, "Fusion", Obj)
        s8 == [s7 EXCEPT !.c.fusion = Obj]
    IN CASE Raised(s1) -> s1
         [] Raised(s3) -> s3
         [] Raised(s5) -> s5
         [] Raised(s7) -> s7
         [] OTHER -> s8

\* The derivation of the second-level handles from the application handle,
\* as written at the end of _connect_to_resolve and in refresh.
DeriveHandles(s) ==
    LET s1 == Call(s, "GetProjectManager", Obj)
        pm == IF pmAvail THEN Obj ELSE None
        s2 == [s1 EXCEPT !.c.project_manager = pm]
        s3 == IF pm = None THEN AttributeError(s2) ELSE Call(s2, "GetCurrentProject", Obj)
        s4 == [s3 EXCEPT !.c.current_project = s3.xp]
        s5 == Call(s4, "GetMediaStorage", Obj)
        s6 == [s5 EXCEPT !.c.media_storage = Obj]
        s7 == Call(s6, "Fusion", Obj)
        s8 == [s7 EXCEPT !.c.fusion = Obj]
        s9 == IF s8.c.current_project # None
              THEN Call(s8, "GetMediaPool", s8.c.current_project)
              ELSE s8
        s10 == [s9 EXCEPT !.c.media_pool = s8.c.current_project]
    IN CASE Raised(s1) -> s1
         [] Raised(s3) -> s3
         [] Raised(s5) -> s5
         [] Raised(s7) -> s7
         [] Raised(s9) -> s9
         [] OTHER -> s10

_connect_to_resolve(s) ==
    LET f == _find_scripting_module(s)
        i1 == Call(f, "import", None)
        i2 == [i1 EXCEPT !.mods = TRUE]
        a1 == Call(i2, "scriptapp", None)
        a2 == [a1 EXCEPT !.c.resolve = IF appRunning THEN Obj ELSE None]
        failed == [f EXCEPT !.calls = Append(@, <<"import", None, <<>>>>), !.c.resolve = None]
    IN IF f.val = "None" THEN f
       ELSE IF ~Importable(f) THEN failed
       ELSE IF Raised(i1) THEN i1
       ELSE IF Raised(a1) THEN a1
       ELSE IF a2.c.resolve # None THEN DeriveHandles(a2)
       ELSE a2

\* __init__
__init__(s) == _connect_to_resolve([s EXCEPT !.c = EmptyCache])

\* refresh() asking the scripting module for the application handle on
\* every call, connected or not.
refresh_reset(s) ==
    LET s1 == [s EXCEPT !.c.resolve = IF appRunning THEN Obj ELSE None]
    IN IF Raised(s1) THEN s1
       ELSE IF s1.c.resolve # None THEN DeriveHandles(s1)
       ELSE s1

\* refresh
refresh(s) ==
    LET s1 == IF s.c.resolve = None THEN _connect_to_resolve(s) ELSE s
    IN IF Raised(s1) THEN s1
       ELSE IF s1.c.resolve # None THEN DeriveHandles(s1)
       ELSE s1

is_connected(s) == s.c.resolve # None

\* The shape of most accessors: return the sentinel when the guard fails,
\* else forward one call and return what the application returns.
Forward(s, guard, sentinel, m, target, args) ==
    IF ~guard THEN Return(s, sentinel)
    ELSE LET s1 == Ask(s, m, target, args)
         IN IF Raised(s1) THEN s1 ELSE Return(s1, s1.x)

\* The same inside try/except Exception: an exception gives the sentinel.
TryForward(s, guard, sentinel, m, target, args) ==
    IF ~guard THEN Return(s, sentinel)
    ELSE LET s1 == Ask(s, m, target, args)
         IN IF Raised(s1) THEN Return(Caught(s1), sentinel) ELSE Return(s1, s1.x)

get_project_manager(s) == Return(s, RObj("ProjectManager", s.c.project_manager))

get_current_project(s) ==
    LET s1 == Call(s, "GetCurrentProject", Obj)
        s2 == [s1 EXCEPT !.c.current_project = s1.xp]
    IN IF s.c.project_manager = None THEN Return(s, RObj("Project", s.c.current_project))
       ELSE IF Raised(s1) THEN s1
       ELSE Return(s2, RObj("Project", s2.c.current_project))

get_media_storage(s) == Return(s, RObj("MediaStorage", s.c.media_storage))

\* The media pool of project k is identified by k.
get_media_pool(s) ==
    LET s1 == Call(s, "GetMediaPool", s.c.current_project)
        s2 == [s1 EXCEPT !.c.media_pool = s.c.current_project]
    IN IF s.c.current_project = None THEN Return(s, RObj("MediaPool", s.c.media_pool))
       ELSE IF Raised(s1) THEN s1
       ELSE Return(s2, RObj("MediaPool", s2.c.media_pool))

get_fusion(s) == Return(s, RObj("Fusion", s.c.fusion))

\* str.lower() on the page names of the model.
Lower(str) ==
    CASE str = "COLOR" -> "color"
      [] str = "Edit" -> "edit"
      [] OTHER -> str

valid_pages == {"media", "edit", "fusion", "color", "fairlight", "deliver"}

open_page(s, page_name) ==
    LET s1 == CallWith(s, "OpenPage", Obj, <<RStr(Lower(page_name))>>)
    IN IF s.c.resolve = None THEN Return(s, RBool(FALSE))
       ELSE IF Lower(page_name) \notin valid_pages THEN Return(s, RBool(FALSE))
       ELSE IF Raised(s1) THEN s1
       ELSE Return(s1, RBool(TRUE))

\* OpenProject leaving the cached media pool as it was.
OpenProject_stalepool(s, m, project_name) ==
    LET s1 == Ask(s, m, Obj, <<RInt(project_name)>>)
        s2 == [s1 EXCEPT !.xp = IF Truthy(s1.x) THEN s1.x.n ELSE @]
        s3 == [s2 EXCEPT !.c.current_project = s2.x.n]
    IN IF s.c.project_manager = None THEN Return(s, RBool(FALSE))
       ELSE IF Raised(s1) THEN s1
       ELSE IF ~Truthy(s2.x) THEN Return(s2, RBool(FALSE))
       ELSE Return(s3, RBool(TRUE))

\* OpenProject assigning the cached current project before it looks at what
\* the application answered.
OpenProject_assignfirst(s, m, project_name) ==
    LET s1 == Ask(s, m, Obj, <<RInt(project_name)>>)
        s2 == [s1 EXCEPT !.xp = IF Truthy(s1.x) THEN s1.x.n ELSE @]
        s3 == [s2 EXCEPT !.c.current_project = s2.x.n]
        s4 == Call(s3, "GetMediaPool", s3.c.current_project)
        s5 == [s4 EXCEPT !.c.media_pool = s3.c.current_project]
    IN IF s.c.project_manager = None THEN Return(s, RBool(FALSE))
       ELSE IF Raised(s1) THEN s1
       ELSE IF ~Truthy(s2.x) THEN Return(s3, RBool(FALSE))
       ELSE IF Raised(s4) THEN s4
       ELSE Return(s5, RBool(TRUE))

\* OpenProject reporting success whatever the application answered.
OpenProject_unchecked(s, m, project_name) ==
    LET s1 == Ask(s, m, Obj, <<RInt(project_name)>>)
        s2 == [s1 EXCEPT !.xp = IF Truthy(s1.x) THEN s1.x.n ELSE @]
        s3 == [s2 EXCEPT !.c.current_project = s2.x.n]
        s4 == Call(s3, "GetMediaPool", s3.c.current_project)
        s5 == [s4 EXCEPT !.c.media_pool = s3.c.current_project]
    IN IF s.c.project_manager = None THEN Return(s, RBool(FALSE))
       ELSE IF Raised(s1) THEN s1
       ELSE IF ~Truthy(s2.x) THEN Return(s2, RBool(TRUE))
       ELSE IF Raised(s4) THEN s4
       ELSE Return(s5, RBool(TRUE))

\* create_project and load_project differ in the external method only.  The
\* application answers x: the project it created or loaded (then its current
\* project), or None.
OpenProject(s, m, project_name) ==
    LET s1 == Ask(s, m, Obj, <<RInt(project_name)>>)
        s2 == [s1 EXCEPT !.xp = IF Truthy(s1.x) THEN s1.x.n ELSE @]
        s3 == [s2 EXCEPT !.c.current_project = s2.x.n]
        s4 == Call(s3, "GetMediaPool", s3.c.current_project)
        s5 == [s4 EXCEPT !.c.media_pool = s3.c.current_project]
    IN IF s.c.project_manager = None THEN Return(s, RBool(FALSE))
       ELSE IF Raised(s1) THEN s1
       ELSE IF ~Truthy(s2.x) THEN Return(s2, RBool(FALSE))
       ELSE IF Raised(s4) THEN s4
       ELSE Return(s5, RBool(TRUE))

create_project(s, project_name) == OpenProject(s, "CreateProject", project_name)

load_project(s, project_name) == OpenProject(s, "LoadProject", project_name)

save_project(s) ==
    Forward(s, s.c.current_project # None, RBool(FALSE),
            "SaveProject", s.c.current_project, <<>>)

\* Project k is named k.
get_project_name(s) ==
    LET s1 == Call(s, "GetName", s.c.current_project)
    IN IF s.c.current_project = None THEN Return(s, RNone)
       ELSE IF Raised(s1) THEN s1
       ELSE Return(s1, RFmt("name", s.c.current_project))

create_timeline(s, timeline_name) ==
    LET s1 == Ask(s, "CreateEmptyTimeline", s.c.media_pool, <<timeline_name>>)
    IN IF s.c.media_pool = None THEN Return(s, RBool(FALSE))
       ELSE IF Raised(s1) THEN s1
       ELSE Return(s1, RBool(s1.x.t # "None"))

get_current_timeline(s) ==
    Forward(s, s.c.current_project # None, RNone,
            "GetCurrentTimeline", s.c.current_project, <<>>)

get_timeline_count(s) ==
    Forward(s, s.c.current_project # None, RInt(0),
            "GetTimelineCount", s.c.current_project, <<>>)

get_timeline_by_index(s, index) ==
    Forward(s, s.c.current_project # None, RNone,
            "GetTimelineByIndex", s.c.current_project, <<index>>)

set_current_timeline(s, timeline) ==
    Forward(s, s.c.current_project # None, RBool(FALSE),
            "SetCurrentTimeline", s.c.current_project, <<timeline>>)

get_mounted_volumes(s) ==
    Forward(s, s.c.media_storage # None, RList(<<>>), "GetMountedVolumes", Obj, <<>>)

get_sub_folders(s, folder_path) ==
    Forward(s, s.c.media_storage # None, RList(<<>>), "GetSubFolders", Obj, <<folder_path>>)

get_files(s, folder_path) ==
    Forward(s, s.c.media_storage # None, RList(<<>>), "GetFiles", Obj, <<folder_path>>)

add_items_to_media_pool(s, file_paths) ==
    Forward(s, s.c.media_storage # None /\ s.c.media_pool # None, RList(<<>>),
            "AddItemsToMediaPool", Obj, <<file_paths>>)

get_root_folder(s) ==
    Forward(s, s.c.media_pool # None, RNone, "GetRootFolder", s.c.media_pool, <<>>)

get_current_folder(s) ==
    Forward(s, s.c.media_pool # None, RNone, "GetCurrentFolder", s.c.media_pool, <<>>)

add_sub_folder(s, parent_folder, folder_name) ==
    Forward(s, s.c.media_pool # None, RNone, "AddSubFolder", s.c.media_pool,
            <<parent_folder, folder_name>>)

get_folder_clips(s, folder) ==
    Forward(s, Truthy(folder), RList(<<>>), "Folder.GetClips", folder.n, <<>>)

get_folder_name(s, folder) ==
    Forward(s, Truthy(folder), RNone, "Folder.GetName", folder.n, <<>>)

get_folder_sub_folders(s, folder) ==
    Forward(s, Truthy(folder), RList(<<>>), "Folder.GetSubFolders", folder.n, <<>>)

append_to_timeline(s, clips) ==
    Forward(s, s.c.media_pool # None, RBool(FALSE),
            "AppendToTimeline", s.c.media_pool, <<clips>>)

create_timeline_from_clips(s, timeline_name, clips) ==
    Forward(s, s.c.media_pool # None, RNone,
            "CreateTimelineFromClips", s.c.media_pool,
            <<timeline_name, clips>>)

import_timeline_from_file(s, file_path) ==
    Forward(s, s.c.media_pool # None, RNone,
            "ImportTimelineFromFile", s.c.media_pool, <<file_path>>)

execute_lua(s, script) ==
    Forward(s, s.c.fusion # None, RNone, "Execute", Obj, <<script>>)

\* ------------------------------------------------------------------ the class body
\* The attributes of a ResolveAPI object: the methods defined in the class
\* body, which ends where create_fusion_node starts at column 0.
ResolveAPI_methods ==
    {"_find_scripting_module", "_connect_to_resolve", "refresh", "is_connected",
     "get_project_manager", "get_current_project", "get_media_storage",
     "get_media_pool", "get_fusion", "open_page", "create_project", "load_project",
     "save_project", "get_project_name", "create_timeline", "get_current_timeline",
     "get_timeline_count", "get_timeline_by_index", "set_current_timeline",
     "get_mounted_volumes", "get_sub_folders", "get_files", "add_items_to_media_pool",
     "get_root_folder", "get_current_folder", "add_sub_folder", "get_folder_clips",
     "get_folder_name", "get_folder_sub_folders", "append_to_timeline",
     "create_timeline_from_clips", "import_timeline_from_file", "execute_lua"}

\* resolve_api.<name>(...) in frame s: AttributeError when the object has no
\* such attribute, else r, the frame the call ends in.
Invoke(s, name, r) ==
    IF name \in ResolveAPI_methods THEN r ELSE AttributeError(s)

\* ------------------------------------------------------------------ after the class
\* create_fusion_node, a function of the module: its first statement reads
\* the undefined name fusion, and the NameError is caught by its except.
create_fusion_node(s, comp, node_type, inputs) == Return(s, RNone)

\* The functions below are defined inside create_fusion_node, after its
\* last return; they are written against self like the methods above.

get_current_comp(s) ==
    TryForward(s, s.c.fusion # None, RNone, "CurrentComp", Obj, <<>>)

\* timeline = self.get_current_timeline(); if not timeline: return sentinel;
\* try: return timeline.m(args) / except: return sentinel
OnTimeline(s, sentinel, m, args) ==
    LET t == get_current_timeline(s)
    IN IF Raised(t) THEN t
       ELSE TryForward(t, Truthy(t.ret), sentinel, m, t.ret.n, args)

get_timeline_items(s, track_type, track_index) ==
    LET r == OnTimeline(s, RList(<<>>), "GetItemListInTrack", <<track_type, track_index>>)
    IN IF Raised(r) \/ Truthy(r.ret) THEN r ELSE Return(r, RList(<<>>))

set_clip_property(s, clip, property_name, value) ==
    TryForward(s, Truthy(clip), RBool(FALSE), "SetProperty", clip.n,
               <<property_name, value>>)

\* clip = timeline.GetCurrentVideoItem() is outside the try.
add_color_node(s, node_type) ==
    LET t == get_current_timeline(s)
        c1 == Ask(t, "GetCurrentVideoItem", t.ret.n, <<>>)
        g == Ask(c1, "GetNodeGraph", c1.x.n, <<>>)
    IN IF Raised(t) THEN t
       ELSE IF ~Truthy(t.ret) THEN Return(t, RNone)
       ELSE IF Raised(c1) THEN c1
       ELSE IF ~Truthy(c1.x) THEN Return(c1, RNone)
       ELSE IF Raised(g) \/ ~Truthy(g.x) THEN Return(Caught(g), RNone)
       ELSE TryForward(g, TRUE, RNone, "AddNode", g.x.n, <<node_type>>)

set_project_setting(s, key, value) ==
    TryForward(s, s.c.current_project # None, RBool(FALSE),
               "SetSetting", s.c.current_project, <<key, value>>)

start_render(s, preset_name, render_path) ==
    LET p == s.c.current_project
        s1 == IF Truthy(preset_name) THEN Ask(s, "LoadRenderPreset", p, <<preset_name>>)
              ELSE s
        s2 == IF Truthy(render_path) THEN Ask(s1, "SetRenderSettings", p, <<render_path>>)
              ELSE s1
    IN IF p = None THEN Return(s, RBool(FALSE))
       ELSE IF Raised(s1) THEN Return(Caught(s1), RBool(FALSE))
       ELSE IF Raised(s2) THEN Return(Caught(s2), RBool(FALSE))
       ELSE TryForward(s2, TRUE, RBool(FALSE), "StartRendering", p, <<>>)

add_timeline_marker(s, frame, color, name, note) ==
    OnTimeline(s, RBool(FALSE), "AddMarker", <<frame, color, name, note, RInt(1)>>)

get_gallery(s) ==
    TryForward(s, s.c.current_project # None, RNone,
               "GetGallery", s.c.current_project, <<>>)

get_gallery_albums(s) ==
    LET g == get_gallery(s)
    IN TryForward(g, Truthy(g.ret), RList(<<>>), "GetGalleryAlbumList", g.ret.n, <<>>)

save_still(s, album_name) ==
    LET g == get_gallery(s)
        t == get_current_timeline(g)
        c1 == Ask(t, "GetCurrentVideoItem", t.ret.n, <<>>)
        a1 == Ask(c1, "GetAlbum", g.ret.n, <<album_name>>)
        a2 == IF Truthy(a1.x) THEN a1
              ELSE Ask(a1, "CreateEmptyAlbum", g.ret.n, <<album_name>>)
    IN IF Raised(t) THEN t
       ELSE IF ~Truthy(g.ret) \/ ~Truthy(t.ret) THEN Return(t, RNone)
       ELSE IF Raised(c1) THEN c1
       ELSE IF ~Truthy(c1.x) THEN Return(c1, RNone)
       ELSE IF Raised(a1) THEN Return(Caught(a1), RNone)
       ELSE IF Raised(a2) THEN Return(Caught(a2), RNone)
       ELSE TryForward(a2, TRUE, RNone, "SaveAsStill", c1.x.n, <<a2.x>>)

\* target_clip = clip or self.get_current_timeline().GetCurrentVideoItem()
\*               if self.get_current_timeline() else None
\* parses as (clip or ...) if ... else None.
apply_still(s, still, clip) ==
    LET t1 == get_current_timeline(s)
        t2 == get_current_timeline(t1)
        v == IF ~Truthy(t2.ret) THEN AttributeError(t2)
             ELSE Ask(t2, "GetCurrentVideoItem", t2.ret.n, <<>>)
        chosen == IF ~Truthy(t1.ret) THEN [t1 EXCEPT !.x = RNone]
                  ELSE IF Truthy(clip) THEN [t1 EXCEPT !.x = clip]
                  ELSE IF Raised(t2) THEN t2
                  ELSE v
    IN IF ~Truthy(still) THEN Return(s, RBool(FALSE))
       ELSE IF Raised(t1) THEN t1
       ELSE IF Raised(chosen) THEN chosen
       ELSE TryForward(chosen, Truthy(chosen.x), RBool(FALSE),
                       "ApplyGradeFromStill", chosen.x.n, <<still>>)

add_track(s, track_type) == OnTimeline(s, RBool(FALSE), "AddTrack", <<track_type>>)

set_track_name(s, track_type, track_index, name) ==
    OnTimeline(s, RBool(FALSE), "SetTrackName", <<track_type, track_index, name>>)

enable_track(s, track_type, track_index, enable) ==
    OnTimeline(s, RBool(FALSE), "SetTrackEnable", <<track_type, track_index, enable>>)

set_audio_volume(s, clip, volume) ==
    TryForward(s, Truthy(clip), RBool(FALSE), "SetAudioVolume", clip.n, <<volume>>)

set_track_volume(s, track_index, volume) ==
    OnTimeline(s, RBool(FALSE), "SetTrackVolume", <<RStr("audio"), track_index, volume>>)

set_current_version(s, clip, version_index, version_type) ==
    TryForward(s, Truthy(clip), RBool(FALSE), "SetCurrentVersion", clip.n,
               <<version_index, version_type>>)

\* play and stop: the application's answer is dropped, True is returned.
PlayStop(s, m) ==
    LET s1 == Ask(s, m, Obj, <<>>)
    IN IF s.c.resolve = None THEN Return(s, RBool(FALSE))
       ELSE IF Raised(s1) THEN Return(Caught(s1), RBool(FALSE))
       ELSE Return(s1, RBool(TRUE))

play(s) == PlayStop(s, "Play")

stop(s) == PlayStop(s, "Stop")

set_playhead_position(s, frame) ==
    LET t == get_current_timeline(s)
        tc == Ask(t, "GetTimecodeFromFrame", t.ret.n, <<frame>>)
    IN IF Raised(t) THEN t
       ELSE IF ~Truthy(t.ret) THEN Return(t, RBool(FALSE))
       ELSE IF Raised(tc) THEN Return(Caught(tc), RBool(FALSE))
       ELSE TryForward(tc, TRUE, RBool(FALSE), "SetCurrentTimecode", t.ret.n, <<tc.x>>)

export_project(s, project_name, file_path) ==
    TryForward(s, s.c.project_manager # None, RBool(FALSE),
               "ExportProject", Obj, <<project_name, file_path>>)

import_project(s, file_path) ==
    TryForward(s, s.c.project_manager # None, RBool(FALSE),
               "ImportProject", Obj, <<file_path>>)

\* ------------------------------------------------------------------ Bridge
NotConnected == RStr("Not connected to DaVinci Resolve.")

\* The elements of names that pass keep, in order.
Filter(names, keep) == SelectSeq(names, LAMBDA nm : nm \in keep)

\* next((item for item in items if item.GetName() == name), None): the
\* position of the first element named name, 0 when there is none.
FirstNamed(names, name) ==
    LET hits == {i \in 1..Len(names) : names[i] = name}
    IN IF hits = {} THEN 0 ELSE CHOOSE i \in hits : \A j \in hits : i <= j

\* The getter m, called on each element a scan of names for name inspects.
Scan(s, m, names, name) ==
    LET k == FirstNamed(names, name)
        last == IF k = 0 THEN Len(names) ELSE k
    IN IF last = 0 THEN s
       ELSE IF s.bad = m
       THEN [s EXCEPT !.calls = Append(@, <<m, 1, <<>>>>), !.exc = "ExternalError"]
       ELSE [s EXCEPT !.calls = @ \o [i \in 1..last |-> <<m, i, <<>>>>]]

\* Iterating what the application returned: TypeError unless it is a list.
Iterable(s) == IF s.x.t = "list" THEN s ELSE [s EXCEPT !.exc = "TypeError"]

\* ---- resources
srv_get_system_status(s) ==
    LET p == get_project_name(s)
        t == get_current_timeline(p)
        g == IF Truthy(t.ret) THEN Call(t, "Timeline.GetName", t.ret.n) ELSE t
    IN IF ~is_connected(s) THEN Return(s, NotConnected)
       ELSE IF Raised(p) THEN p
       ELSE IF Raised(t) THEN t
       ELSE IF Raised(g) THEN g
       ELSE Return(g, RFmt(
            IF Truthy(p.ret)
            THEN (IF Truthy(t.ret)
                  THEN "Connected: Yes|Project: {name}|Timeline: {name}"
                  ELSE "Connected: Yes|Project: {name}|Timeline: No timeline open")
            ELSE (IF Truthy(t.ret)
                  THEN "Connected: Yes|Project: No project open|Timeline: {name}"
                  ELSE "Connected: Yes|Project: No project open|Timeline: No timeline open"),
            p.ret.n))

srv_get_current_project(s) ==
    LET p == get_current_project(s)
        n1 == Call(p, "GetName", p.ret.n)
        n2 == Ask(n1, "GetTimelineCount", p.ret.n, <<>>)
    IN IF ~is_connected(s) THEN Return(s, NotConnected)
       ELSE IF Raised(p) THEN p
       ELSE IF ~Truthy(p.ret) THEN Return(p, RStr("No project open."))
       ELSE IF Raised(n1) THEN n1
       ELSE IF Raised(n2) THEN n2
       ELSE Return(n2, RFmt("Name: {name}|Timelines: {count}", p.ret.n))

srv_get_current_timeline(s) ==
    LET t == get_current_timeline(s)
        n1 == Call(t, "Timeline.GetName", t.ret.n)
        n2 == Call(n1, "GetEndFrame", t.ret.n)
        n3 == Call(n2, "GetStartFrame", t.ret.n)
        n4 == CallWith(n3, "GetTrackCount", t.ret.n, <<RStr("video")>>)
    IN IF ~is_connected(s) THEN Return(s, NotConnected)
       ELSE IF Raised(t) THEN t
       ELSE IF ~Truthy(t.ret) THEN Return(t, RStr("No timeline open."))
       ELSE IF Raised(n1) THEN n1
       ELSE IF Raised(n2) THEN n2
       ELSE IF Raised(n3) THEN n3
       ELSE IF Raised(n4) THEN n4
       ELSE Return(n4, RStr("Name: {name}|Duration: {frames} frames|Video Tracks: {count}"))

srv_get_current_media_pool_folder(s) ==
    LET mp == get_media_pool(s)
        f == Ask(mp, "GetCurrentFolder", mp.ret.n, <<>>)
        c1 == Ask(f, "Folder.GetClips", f.x.n, <<>>)
        n1 == Call(c1, "Folder.GetName", f.x.n)
    IN IF ~is_connected(s) THEN Return(s, NotConnected)
       ELSE IF Raised(mp) THEN mp
       ELSE IF ~Truthy(mp.ret) THEN Return(mp, RStr("No media pool available."))
       ELSE IF Raised(f) THEN f
       ELSE IF ~Truthy(f.x) THEN Return(f, RStr("No current folder."))
       ELSE IF Raised(c1) THEN c1
       ELSE IF Truthy(c1.x) /\ c1.x.t # "list" THEN [c1 EXCEPT !.exc = "TypeError"]
       ELSE IF Raised(n1) THEN n1
       ELSE Return(n1, RFmt("Folder: {name}|Clips: {count}", c1.x.n))

srv_get_gallery_albums(s) ==
    LET a == Invoke(s, "get_gallery_albums", get_gallery_albums(s))
        n1 == Scan(a, "Album.GetName", a.ret.l, "")
    IN IF ~is_connected(s) THEN Return(s, NotConnected)
       ELSE IF Raised(a) THEN a
       ELSE IF ~Truthy(a.ret) THEN Return(a, RStr("No albums"))
       ELSE IF Raised(n1) THEN n1
       ELSE Return(n1, RFmt("{names}", a.ret.n))

srv_get_timeline_items_resource(s) ==
    LET a == Invoke(s, "get_timeline_items",
                    get_timeline_items(s, RStr("video"), RInt(1)))
        n1 == Scan(a, "Item.GetName", a.ret.l, "")
    IN IF Raised(a) THEN a
       ELSE IF ~Truthy(a.ret) THEN Return(a, RStr("No items"))
       ELSE IF Raised(n1) THEN n1
       ELSE Return(n1, RFmt("Clip {i}: {name}", a.ret.n))

\* ---- tools
\* The shape of most tools: the connection guard, one Connector call (call
\* is the frame it ends in), and a string chosen by the truth of its result.
\* Tool without the connection guard.
Tool_unguarded(s, name, call, yes, no) ==
    LET r == Invoke(s, name, call)
    IN IF Raised(r) THEN r
       ELSE Return(r, IF Truthy(r.ret) THEN yes ELSE no)

Tool(s, name, call, yes, no) ==
    LET r == Invoke(s, name, call)
    IN IF ~is_connected(s) THEN Return(s, NotConnected)
       ELSE IF Raised(r) THEN r
       ELSE Return(r, IF Truthy(r.ret) THEN yes ELSE no)

srv_refresh(s) ==
    LET r == refresh(s)
    IN IF ~is_connected(s) THEN Return(s, NotConnected)
       ELSE IF Raised(r) THEN r
       ELSE Return(r, RStr("Resolve API state refreshed."))

srv_create_project(s, name) ==
    Tool(s, "create_project", create_project(s, name),
         RFmt("Project '{name}' created.", name), RFmt("Failed to create '{name}'.", name))

srv_load_project(s, name) ==
    Tool(s, "load_project", load_project(s, name),
         RFmt("Project '{name}' loaded.", name), RFmt("Failed to load '{name}'.", name))

srv_save_project(s) ==
    Tool(s, "save_project", save_project(s),
         RStr("Project saved."), RStr("Failed to save project."))

srv_export_project(s, project_name, file_path) ==
    Tool(s, "export_project", export_project(s, project_name, file_path),
         RStr("Project '{project_name}' exported to '{file_path}'."),
         RStr("Failed to export project."))

srv_import_project(s, file_path) ==
    Tool(s, "import_project", import_project(s, file_path),
         RStr("Project imported from '{file_path}'."), RStr("Failed to import project."))

\* open_page without the validation of the page name.
srv_open_page_unvalidated(s, page_name) ==
    Tool(s, "open_page", open_page(s, Lower(page_name)),
         [RStr("Opened '{page_name}' page.") EXCEPT !.l = <<page_name>>],
         [RStr("Failed to open '{page_name}'.") EXCEPT !.l = <<page_name>>])

srv_open_page(s, page_name) ==
    IF Lower(page_name) \notin valid_pages
    THEN Return(s, RStr("Invalid page. Use: media, edit, fusion, color, fairlight, deliver"))
    ELSE Tool(s, "open_page", open_page(s, Lower(page_name)),
              [RStr("Opened '{page_name}' page.") EXCEPT !.l = <<page_name>>],
              [RStr("Failed to open '{page_name}'.") EXCEPT !.l = <<page_name>>])

srv_create_timeline(s, name) ==
    Tool(s, "create_timeline", create_timeline(s, name),
         RStr("Timeline '{name}' created."), RStr("Failed to create '{name}'."))

\* set_current_timeline without the test of what get_timeline_by_index
\* returned.
srv_set_current_timeline_unchecked(s, timeline_index) ==
    LET t == get_timeline_by_index(s, RInt(timeline_index))
        r == set_current_timeline(t, t.ret)
    IN IF ~is_connected(s) THEN Return(s, NotConnected)
       ELSE IF Raised(t) THEN t
       ELSE IF Raised(r) THEN r
       ELSE Return(r, IF Truthy(r.ret)
                      THEN RFmt("Timeline at index {timeline_index} set as current.",
                                timeline_index)
                      ELSE RStr("Failed to set timeline."))

srv_set_current_timeline(s, timeline_index) ==
    LET t == get_timeline_by_index(s, RInt(timeline_index))
        r == set_current_timeline(t, t.ret)
    IN IF ~is_connected(s) THEN Return(s, NotConnected)
       ELSE IF Raised(t) THEN t
       ELSE IF ~Truthy(t.ret)
       THEN Return(t, RFmt("No timeline found at index {timeline_index}.", timeline_index))
       ELSE IF Raised(r) THEN r
       ELSE Return(r, IF Truthy(r.ret)
                      THEN RFmt("Timeline at index {timeline_index} set as current.",
                                timeline_index)
                      ELSE RStr("Failed to set timeline."))

\* len(clips) of a truthy result that is no list is a TypeError.
srv_import_media(s, file_paths) ==
    LET r == add_items_to_media_pool(s, file_paths)
    IN IF ~is_connected(s) THEN Return(s, NotConnected)
       ELSE IF Raised(r) THEN r
       ELSE IF ~Truthy(r.ret) THEN Return(r, RStr("Failed to import files."))
       ELSE IF r.ret.t # "list" THEN [r EXCEPT !.exc = "TypeError"]
       ELSE Return(r, RFmt("Imported {len(clips)} files.", r.ret.n))

srv_add_sub_folder(s, parent_folder_name, folder_name) ==
    LET mp == get_media_pool(s)
        root == Ask(mp, "GetRootFolder", mp.ret.n, <<>>)
        subs == IF Truthy(root.x)
                THEN Iterable(Ask(root, "Folder.GetSubFolders", root.x.n, <<>>))
                ELSE AttributeError(root)
        scan == Scan(subs, "Folder.GetName", subs.x.l, parent_folder_name)
        k == FirstNamed(subs.x.l, parent_folder_name)
        r == add_sub_folder(scan, RObj("Folder", k), RStr(folder_name))
    IN IF ~is_connected(s) THEN Return(s, NotConnected)
       ELSE IF Raised(mp) THEN mp
       ELSE IF ~Truthy(mp.ret) THEN Return(mp, RStr("No media pool available."))
       ELSE IF Raised(root) THEN root
       ELSE IF Raised(subs) THEN subs
       ELSE IF Raised(scan) THEN scan
       ELSE IF k = 0
       THEN Return(scan, RStr("Parent folder '{parent_folder_name}' not found."))
       ELSE IF Raised(r) THEN r
       ELSE Return(r, IF Truthy(r.ret)
                      THEN RStr("Subfolder '{folder_name}' added to '{parent_folder_name}'.")
                      ELSE RStr("Failed to add subfolder."))

\* The clips of the current folder whose "Clip Name" is among clip_names,
\* in val as a list, after the external calls that select them.
SelectClips(s, clip_names) ==
    LET mp == get_media_pool(s)
        f == Ask(mp, "GetCurrentFolder", mp.ret.n, <<>>)
        cl == IF Truthy(f.x) THEN Iterable(Ask(f, "Folder.GetClips", f.x.n, <<>>))
              ELSE AttributeError(f)
        scan == Scan(cl, "GetClipProperty", cl.x.l, "")
    IN IF Raised(mp) THEN mp
       ELSE IF ~Truthy(mp.ret) THEN Return(mp, RStr("No media pool available."))
       ELSE IF Raised(f) THEN f
       ELSE IF Raised(cl) THEN cl
       ELSE IF Raised(scan) THEN scan
       ELSE [scan EXCEPT !.x = RList(Filter(cl.x.l, clip_names)), !.ret = RNone]

srv_append_to_timeline(s, clip_names) ==
    LET sel == SelectClips(s, clip_names)
        r == append_to_timeline(sel, sel.x)
    IN IF ~is_connected(s) THEN Return(s, NotConnected)
       ELSE IF Raised(sel) \/ Truthy(sel.ret) THEN sel
       ELSE IF Raised(r) THEN r
       ELSE Return(r, IF Truthy(r.ret)
                      THEN RFmt("Appended {len(clips)} clips to timeline.", sel.x.n)
                      ELSE RStr("Failed to append clips."))

srv_create_timeline_from_clips(s, timeline_name, clip_names) ==
    LET sel == SelectClips(s, clip_names)
        r == create_timeline_from_clips(sel, RStr(timeline_name), sel.x)
    IN IF ~is_connected(s) THEN Return(s, NotConnected)
       ELSE IF Raised(sel) \/ Truthy(sel.ret) THEN sel
       ELSE IF Raised(r) THEN r
       ELSE Return(r, IF Truthy(r.ret)
                      THEN RFmt("Timeline '{timeline_name}' created with {len(clips)} clips.",
                                sel.x.n)
                      ELSE RStr("Failed to create timeline."))

srv_import_timeline_from_file(s, file_path) ==
    Tool(s, "import_timeline_from_file", import_timeline_from_file(s, file_path),
         RStr("Timeline imported from '{file_path}'."), RStr("Failed to import timeline."))

srv_execute_lua(s, script) ==
    LET r == execute_lua(s, script)
    IN IF ~is_connected(s) THEN Return(s, NotConnected)
       ELSE IF Raised(r) THEN r
       ELSE Return(r, IF Truthy(r.ret)
                      THEN [RStr("Lua script executed: {result}") EXCEPT !.n = r.ret.n,
                                                                       !.l = <<r.ret.s>>]
                      ELSE RStr("Failed to execute Lua script."))

srv_create_fusion_node(s, node_type, inputs) ==
    LET comp == Invoke(s, "get_current_comp", get_current_comp(s))
        node == Invoke(comp, "create_fusion_node",
                       create_fusion_node(comp, comp.ret, node_type, inputs))
    IN IF ~is_connected(s) THEN Return(s, NotConnected)
       ELSE IF Raised(comp) THEN comp
       ELSE IF ~Truthy(comp.ret) THEN Return(comp, RStr("No current Fusion composition."))
       ELSE IF Raised(node) THEN node
       ELSE Return(node, IF Truthy(node.ret) THEN RStr("Node '{node_type}' created.")
                         ELSE RStr("Failed to create '{node_type}' node."))

\* items = resolve_api.get_timeline_items(track, 1)
TrackItems(s, track) ==
    Invoke(s, "get_timeline_items", get_timeline_items(s, RStr(track), RInt(1)))

\* next((item for item in items if item.GetName() == clip_name), None),
\* items the frame get_timeline_items ended in: the frame after the scan,
\* the item found (or None) in x.
ScanItems(items, clip_name) ==
    IF Raised(items) THEN items
    ELSE [Scan(items, "Item.GetName", items.ret.l, clip_name)
          EXCEPT !.x = RObj("Item", FirstNamed(items.ret.l, clip_name))]

\* The tools that find a timeline item by name on a track and change it
\* with one Connector call: scan is the frame the lookup ended in, call the
\* frame the Connector call ended in.
ByClipName(s, scan, clip_name, call, yes, no) ==
    IF ~is_connected(s) THEN Return(s, NotConnected)
    ELSE IF Raised(scan) THEN scan
    ELSE IF ~Truthy(scan.x)
    THEN Return(scan, [RStr("Clip '{clip_name}' not found.") EXCEPT !.l = <<clip_name>>])
    ELSE IF Raised(call) THEN call
    ELSE Return(call, IF Truthy(call.ret) THEN yes ELSE no)

srv_set_clip_property(s, clip_name, property_name, value) ==
    LET OnClip(f) ==
          ByClipName(s, f, clip_name,
               Invoke(f, "set_clip_property", set_clip_property(f, f.x, property_name, value)),
               RStr("Property '{property_name}' set to {value} on '{clip_name}'."),
               RStr("Failed to set property."))
    IN OnClip(ScanItems(TrackItems(s, "video"), clip_name))

srv_add_color_node(s, node_type) ==
    Tool(s, "add_color_node", add_color_node(s, node_type),
         RStr("Color node '{node_type}' added."), RStr("Failed to add color node."))

srv_set_project_setting(s, key, value) ==
    Tool(s, "set_project_setting", set_project_setting(s, key, value),
         RStr("Project setting '{key}' set to {value}."), RStr("Failed to set '{key}'."))

srv_start_project_render(s, preset_name, render_path) ==
    Tool(s, "start_render", start_render(s, preset_name, render_path),
         RStr("Render started."), RStr("Failed to start render."))

srv_add_timeline_marker(s, frame, color, name, note) ==
    Tool(s, "add_timeline_marker",
         add_timeline_marker(s, frame, color, name, note),
         RStr("Marker added at frame {frame}."), RStr("Failed to add marker."))

srv_save_still(s, album_name) ==
    Tool(s, "save_still", save_still(s, album_name),
         RStr("Still saved to '{album_name}'."), RStr("Failed to save still."))

\* for album in albums: the first still labelled still_name, in x (None
\* when no album has one), after the external calls of the search.
RECURSIVE FindStill(_, _, _, _)
FindStill(s, i, n, still_name) ==
    LET st == Iterable(Ask(s, "GetStills", i, <<>>))
        scan == Scan(st, "GetLabel", st.x.l, still_name)
        k == FirstNamed(st.x.l, still_name)
    IN IF i > n THEN [s EXCEPT !.x = RNone]
       ELSE IF Raised(st) THEN st
       ELSE IF Raised(scan) THEN scan
       ELSE IF k # 0 THEN [scan EXCEPT !.x = RObj("Still", k)]
       ELSE FindStill(scan, i + 1, n, still_name)

srv_apply_still(s, still_name, clip_name) ==
    LET Reply(r) ==
          IF Raised(r) THEN r
          ELSE Return(r, IF Truthy(r.ret) THEN RStr("Still '{still_name}' applied.")
                         ELSE RStr("Failed to apply still."))
        Apply(f, still, clip) == Reply(Invoke(f, "apply_still", apply_still(f, still, clip)))
        WithClip(scan, still) ==
          IF Raised(scan) THEN scan
          ELSE IF ~Truthy(scan.x)
          THEN Return(scan, [RStr("Clip '{clip_name}' not found.") EXCEPT !.l = <<clip_name>>])
          ELSE Apply(scan, still, scan.x)
        WithStill(found) ==
          IF Raised(found) THEN found
          ELSE IF ~Truthy(found.x)
          THEN Return(found, [RStr("Still '{still_name}' not found.")
                              EXCEPT !.l = <<still_name>>])
          ELSE IF clip_name = "" THEN Apply(found, found.x, RNone)
          ELSE WithClip(ScanItems(TrackItems(found, "video"), clip_name), found.x)
        WithAlbums(a) ==
          IF Raised(a) THEN a
          ELSE WithStill(IF a.ret.t = "list" THEN FindStill(a, 1, a.ret.n, still_name)
                         ELSE [a EXCEPT !.exc = "TypeError"])
        WithGallery(g) ==
          IF Raised(g) THEN g
          ELSE IF ~Truthy(g.ret) THEN Return(g, RStr("No gallery available."))
          ELSE WithAlbums(Invoke(g, "get_gallery_albums", get_gallery_albums(g)))
    IN IF ~is_connected(s) THEN Return(s, NotConnected)
       ELSE WithGallery(Invoke(s, "get_gallery", get_gallery(s)))

srv_add_track(s, track_type) ==
    Tool(s, "add_track", add_track(s, track_type),
         RStr("{track_type.capitalize()} track added."),
         RStr("Failed to add {track_type} track."))

srv_set_track_name(s, track_type, track_index, name) ==
    Tool(s, "set_track_name", set_track_name(s, track_type, track_index, name),
         RStr("Track {track_index} named '{name}'."), RStr("Failed to set track name."))

srv_enable_track(s, track_type, track_index, enable) ==
    Tool(s, "enable_track", enable_track(s, track_type, track_index, enable),
         IF Truthy(enable) THEN RStr("Track {track_index} enabled.")
         ELSE RStr("Track {track_index} disabled."),
         IF Truthy(enable) THEN RStr("Failed to enabled track.")
         ELSE RStr("Failed to disabled track."))

srv_set_audio_volume(s, clip_name, volume) ==
    LET OnClip(f) ==
          ByClipName(s, f, clip_name,
               Invoke(f, "set_audio_volume", set_audio_volume(f, f.x, volume)),
               RStr("Volume set to {volume} on '{clip_name}'."),
               RStr("Failed to set volume."))
    IN OnClip(ScanItems(TrackItems(s, "audio"), clip_name))

srv_set_track_volume(s, track_index, volume) ==
    Tool(s, "set_track_volume", set_track_volume(s, track_index, volume),
         RStr("Track {track_index} volume set to {volume}."),
         RStr("Failed to set track volume."))

srv_set_current_version(s, clip_name, version_index, version_type) ==
    LET OnClip(f) ==
          ByClipName(s, f, clip_name,
               Invoke(f, "set_current_version",
                      set_current_version(f, f.x, version_index, version_type)),
               RStr("Version {version_index} set for '{clip_name}'."),
               RStr("Failed to set version."))
    IN OnClip(ScanItems(TrackItems(s, "video"), clip_name))

srv_play_timeline(s) ==
    Tool(s, "play", play(s),
         RStr("Playback started."), RStr("Failed to start playback."))

srv_stop_timeline(s) ==
    Tool(s, "stop", stop(s),
         RStr("Playback stopped."), RStr("Failed to stop playback."))

srv_set_playhead_position(s, frame) ==
    Tool(s, "set_playhead_position", set_playhead_position(s, frame),
         RStr("Playhead set to frame {frame}."), RStr("Failed to set playhead position."))

\* ------------------------------------------------------------------ steps
\* The faults that can strike a call: none, or the raising of one of the
\* external methods the call reaches when nothing raises.
Faults(s) == {"none"} \cup {s.calls[i][1] : i \in 1..Len(s.calls)}

\* The state after a call that ended in frame s.
Commit(k, name, a, s) ==
    /\ resolve' = s.c.resolve
    /\ fusion' = s.c.fusion
    /\ project_manager' = s.c.project_manager
    /\ current_project' = s.c.current_project
    /\ media_storage' = s.c.media_storage
    /\ media_pool' = s.c.media_pool
    /\ sys_path' = s.path
    /\ sys_modules' = s.mods
    /\ extProject' = s.xp
    /\ kind' = k
    /\ op' = name
    /\ arg' = a
    /\ pre' = Cache
    /\ ret' = IF Raised(s) THEN RNone ELSE s.ret
    /\ exc' = s.exc
    /\ calls' = s.calls
    /\ ans' = s.x
    /\ UNCHANGED <<hostVars, appRunning, pmAvail>>

\* What the external application may answer.
ItemNames == <<"ClipA", "ClipB">>
XBool == {RBool(TRUE), RBool(FALSE), RNone}
XList == {RList(ItemNames), RList(<<>>), RNone}
XInt == {RInt(2), RInt(0)}
XObj(k) == {RObj(k, Obj), RNone}
XProject(k) == {RObj("Project", k), RNone}
None0 == {<<>>}
One(X) == {<<x>> : x \in X}
\* Answers to calls that follow one another only while the earlier answer
\* is an object: None; x0 then one of Y; x0, y0, then one of Z.
Chain2(x0, Y) == {<<RNone>>} \cup {<<x0, y>> : y \in Y}
Chain3(x0, y0, Y, Z) == Chain2(x0, Y \ {y0}) \cup {<<x0, y0, z>> : z \in Z}

\* The arguments the calls of the model pass.
AName == RStr("a")
ATimeline == RObj("Timeline", Obj)
AFolder == RObj("Folder", Obj)

\* The answers of an application whose current timeline holds the items
\* ItemNames on the track asked for, and that accepts a change or not.
TrackAnswers == {<<ATimeline, RList(ItemNames), b>> : b \in {RBool(TRUE), RBool(FALSE)}}

\* The answers of an application whose gallery has one album with the still
\* "Still1", and whose current timeline holds ItemNames on video track 1: to
\* GetGallery (asked by get_gallery and again by get_gallery_albums),
\* GetGalleryAlbumList, GetStills, GetCurrentTimeline, GetItemListInTrack,
\* GetCurrentTimeline (asked by apply_still) and ApplyGradeFromStill.
StillAnswers ==
    {<<RObj("Gallery", Obj), RObj("Gallery", Obj), RList(<<"Album1">>), RList(<<"Still1">>),
       ATimeline, RList(ItemNames), ATimeline, RBool(TRUE)>>}

\* The indexes the set_current_timeline tool is called with, as the client
\* writes them, and the timeline the application has at an index.
TimelineIndexes == {1, 2}
IndexName == <<"1", "2">>
TimelineAt(i) == RObj("Timeline", i)

PageNames == {"color", "COLOR", "Edit", "deliver", "nonexistent"}
ClipNames == {"ClipA", "ClipZ"}

\* server.py line 39: resolve_api = ResolveAPI().  An exception here leaves
\* the module half loaded and the process ends.
Construct ==
    /\ phase = "start"
    /\ \E bad \in Faults(__init__(Frame("none", <<>>))) :
         LET s == __init__(Frame(bad, <<>>))
         IN /\ Commit("constructor", "ResolveAPI", "", s)
            /\ UNCHANGED dispatchVars
            /\ phase' = IF Raised(s) THEN "crashed" ELSE "serving"

\* One call, of a Connector method or of a handler, in the serving process:
\* run maps the frame the call starts in to the frame it ends in, and the
\* application answers with the values of one of X.
Step(k, name, a, run, X) ==
    /\ phase = "serving"
    /\ \E xs \in X : \E bad \in Faults(run[Frame("none", xs)]) :
         Commit(k, name, a, run[Frame(bad, xs)])
    /\ UNCHANGED <<phase, dispatchVars>>

\* A call name(a) of a method of the Connector.
Do(name, a, run, X) == Step("method", name, a, run, X)

\* A call of a method of the constructed Connector.
ConnectorCall ==
    \/ Do("refresh", "", [s \in Frames |-> refresh(s)], None0)
    \/ Do("get_project_manager", "", [s \in Frames |-> get_project_manager(s)], None0)
    \/ Do("get_current_project", "", [s \in Frames |-> get_current_project(s)], None0)
    \/ Do("get_media_storage", "", [s \in Frames |-> get_media_storage(s)], None0)
    \/ Do("get_media_pool", "", [s \in Frames |-> get_media_pool(s)], None0)
    \/ Do("get_fusion", "", [s \in Frames |-> get_fusion(s)], None0)
    \/ \E pg \in PageNames : Do("open_page", pg, [s \in Frames |-> open_page(s, pg)], None0)
    \/ \E k \in Projects : Do("create_project", "", [s \in Frames |-> create_project(s, k)],
                              One(XProject(k)))
    \/ \E k \in Projects : Do("load_project", "", [s \in Frames |-> load_project(s, k)],
                              One(XProject(k)))
    \/ Do("save_project", "", [s \in Frames |-> save_project(s)], One(XBool))
    \/ Do("get_project_name", "", [s \in Frames |-> get_project_name(s)], None0)
    \/ Do("create_timeline", "", [s \in Frames |-> create_timeline(s, AName)],
          One(XObj("Timeline") \cup {RBool(FALSE)}))
    \/ Do("get_current_timeline", "", [s \in Frames |-> get_current_timeline(s)],
          One(XObj("Timeline")))
    \/ Do("get_timeline_count", "", [s \in Frames |-> get_timeline_count(s)], One(XInt))
    \/ Do("get_timeline_by_index", "", [s \in Frames |-> get_timeline_by_index(s, RInt(1))],
          One(XObj("Timeline")))
    \/ Do("set_current_timeline", "", [s \in Frames |-> set_current_timeline(s, ATimeline)],
          One(XBool))
    \/ Do("get_mounted_volumes", "", [s \in Frames |-> get_mounted_volumes(s)], One(XList))
    \/ Do("get_sub_folders", "", [s \in Frames |-> get_sub_folders(s, AName)], One(XList))
    \/ Do("get_files", "", [s \in Frames |-> get_files(s, AName)], One(XList))
    \/ Do("add_items_to_media_pool", "",
          [s \in Frames |-> add_items_to_media_pool(s, RList(ItemNames))],
          One(XList))
    \/ Do("get_root_folder", "", [s \in Frames |-> get_root_folder(s)], One(XObj("Folder")))
    \/ Do("get_current_folder", "", [s \in Frames |-> get_current_folder(s)], One(XObj("Folder")))
    \/ Do("add_sub_folder", "", [s \in Frames |-> add_sub_folder(s, AFolder, AName)],
          One(XObj("Folder")))
    \/ \E f \in {AFolder, RNone} : Do("get_folder_clips", f.t,
                                      [s \in Frames |-> get_folder_clips(s, f)],
                                      One(XList))
    \/ \E f \in {AFolder, RNone} : Do("get_folder_name", f.t,
                                      [s \in Frames |-> get_folder_name(s, f)],
                                      One({RStr("bin"), RNone}))
    \/ \E f \in {AFolder, RNone} : Do("get_folder_sub_folders", f.t,
                                      [s \in Frames |-> get_folder_sub_folders(s, f)],
                                      One(XList))
    \/ Do("append_to_timeline", "", [s \in Frames |-> append_to_timeline(s, RList(ItemNames))],
          One(XBool))
    \/ Do("create_timeline_from_clips", "",
          [s \in Frames |-> create_timeline_from_clips(s, AName, RList(ItemNames))],
          One(XObj("Timeline")))
    \/ Do("import_timeline_from_file", "", [s \in Frames |-> import_timeline_from_file(s, AName)],
          One(XObj("Timeline")))
    \/ Do("execute_lua", "", [s \in Frames |-> execute_lua(s, AName)],
          One({RStr("out"), RInt(0), RNone}))

\* A read of a resource.
Res(name, run, X) == Step("resource", name, "", run, X)

\* A call of a tool, a its page or clip name.
Tl(name, a, run, X) == Step("tool", name, a, run, X)

\* A request to the Bridge: a read of a resource or a call of a tool.
BridgeRequest ==
    \/ Res("system://status", [s \in Frames |-> srv_get_system_status(s)], One(XObj("Timeline")))
    \/ Res("project://current", [s \in Frames |-> srv_get_current_project(s)], One(XInt))
    \/ Res("timeline://current", [s \in Frames |-> srv_get_current_timeline(s)],
           One(XObj("Timeline")))
    \/ Res("mediapool://current", [s \in Frames |-> srv_get_current_media_pool_folder(s)],
           Chain2(AFolder, XList))
    \/ Res("gallery://albums", [s \in Frames |-> srv_get_gallery_albums(s)], None0)
    \/ Res("timeline://items", [s \in Frames |-> srv_get_timeline_items_resource(s)], None0)
    \/ Tl("refresh", "", [s \in Frames |-> srv_refresh(s)], None0)
    \/ \E k \in Projects : Tl("create_project", "", [s \in Frames |-> srv_create_project(s, k)],
                              One(XProject(k)))
    \/ \E k \in Projects : Tl("load_project", "", [s \in Frames |-> srv_load_project(s, k)],
                              One(XProject(k)))
    \/ Tl("save_project", "", [s \in Frames |-> srv_save_project(s)], One(XBool))
    \/ Tl("export_project", "", [s \in Frames |-> srv_export_project(s, AName, AName)], None0)
    \/ Tl("import_project", "", [s \in Frames |-> srv_import_project(s, AName)], None0)
    \/ \E pg \in PageNames : Tl("open_page", pg, [s \in Frames |-> srv_open_page(s, pg)], None0)
    \/ Tl("create_timeline", "", [s \in Frames |-> srv_create_timeline(s, AName)],
          One(XObj("Timeline") \cup {RBool(FALSE)}))
    \/ \E i \in TimelineIndexes :
         Tl("set_current_timeline", IndexName[i],
            [s \in Frames |-> srv_set_current_timeline(s, i)],
            Chain2(TimelineAt(i), XBool))
    \/ Tl("import_media", "", [s \in Frames |-> srv_import_media(s, RList(ItemNames))], One(XList))
    \/ \E nm \in ClipNames : Tl("add_sub_folder", nm,
                                [s \in Frames |-> srv_add_sub_folder(s, nm, "a")],
                                Chain3(AFolder, RList(ItemNames), XList, XObj("Folder")))
    \/ \E nm \in ClipNames : Tl("append_to_timeline", nm,
                                [s \in Frames |-> srv_append_to_timeline(s, {nm})],
                                Chain3(AFolder, RList(ItemNames), XList,
                                       {RBool(TRUE), RBool(FALSE)})
                                    \cup {<<AFolder, RList(<<>>), RBool(TRUE)>>})
    \/ \E nm \in ClipNames : Tl("create_timeline_from_clips", nm,
                                [s \in Frames |-> srv_create_timeline_from_clips(s, "a", {nm})],
                                Chain3(AFolder, RList(ItemNames), XList, XObj("Timeline"))
                                    \cup {<<AFolder, RList(<<>>), ATimeline>>})
    \/ Tl("import_timeline_from_file", "",
          [s \in Frames |-> srv_import_timeline_from_file(s, AName)],
          One(XObj("Timeline")))
    \/ Tl("execute_lua", "", [s \in Frames |-> srv_execute_lua(s, AName)],
          One({RStr("out"), RInt(0), RNone}))
    \/ Tl("create_fusion_node", "", [s \in Frames |-> srv_create_fusion_node(s, AName, RNone)],
          None0)
    \/ \E nm \in ClipNames : Tl("set_clip_property", nm,
                                [s \in Frames |-> srv_set_clip_property(s, nm, AName, RInt(1))],
                                TrackAnswers)
    \/ Tl("add_color_node", "", [s \in Frames |-> srv_add_color_node(s, RStr("Corrector"))], None0)
    \/ Tl("set_project_setting", "", [s \in Frames |-> srv_set_project_setting(s, AName, RInt(1))],
          None0)
    \/ Tl("start_project_render", "", [s \in Frames |-> srv_start_project_render(s, AName, AName)],
          None0)
    \/ Tl("add_timeline_marker", "",
          [s \in Frames |-> srv_add_timeline_marker(s, RInt(1), RStr("Blue"), RStr(""), RStr(""))],
          None0)
    \/ Tl("save_still", "", [s \in Frames |-> srv_save_still(s, RStr("Stills"))], None0)
    \/ \E nm \in {""} \cup ClipNames :
         Tl("apply_still", nm, [s \in Frames |-> srv_apply_still(s, "Still1", nm)],
            StillAnswers)
    \/ Tl("add_track", "", [s \in Frames |-> srv_add_track(s, RStr("video"))], None0)
    \/ Tl("set_track_name", "",
          [s \in Frames |-> srv_set_track_name(s, RStr("video"), RInt(1), AName)],
          None0)
    \/ Tl("enable_track", "",
          [s \in Frames |-> srv_enable_track(s, RStr("video"), RInt(1), RBool(TRUE))],
          None0)
    \/ \E nm \in ClipNames : Tl("set_audio_volume", nm,
                                [s \in Frames |-> srv_set_audio_volume(s, nm, RInt(1))],
                                TrackAnswers)
    \/ Tl("set_track_volume", "", [s \in Frames |-> srv_set_track_volume(s, RInt(1), RInt(1))],
          None0)
    \/ \E nm \in ClipNames : Tl("set_current_version", nm,
                                [s \in Frames |->
                                   srv_set_current_version(s, nm, RInt(0), RStr("color"))],
                                TrackAnswers)
    \/ Tl("play_timeline", "", [s \in Frames |-> srv_play_timeline(s)], None0)
    \/ Tl("stop_timeline", "", [s \in Frames |-> srv_stop_timeline(s)], None0)
    \/ Tl("set_playhead_position", "", [s \in Frames |-> srv_set_playhead_position(s, RInt(1))],
          None0)

\* ------------------------------------------------------------------ dispatch
\* mcp.run() serves the requests from one event loop, on one thread.  Each
\* request received becomes a task of the loop; a task has the thread from
\* the moment the loop resumes it until it awaits or ends.
Slots == 1..NSlot

Idle == [handler |-> "none", k |-> 0, at |-> "idle"]

\* create_project up to the assignment of self.current_project (server.py
\* 122-125, resolve_api.py 184-188), and from there to its return.
srv_create_project_1(s, name) ==
    LET s1 == Ask(s, "CreateProject", Obj, <<RInt(name)>>)
        s2 == [s1 EXCEPT !.xp = IF Truthy(s1.x) THEN s1.x.n ELSE @]
        no == RFmt("Failed to create '{name}'.", name)
    IN IF ~is_connected(s) THEN Return(s, NotConnected)
       ELSE IF s.c.project_manager = None THEN Return(s, no)
       ELSE IF Raised(s1) THEN s1
       ELSE IF ~Truthy(s1.x) THEN Return(s2, no)
       ELSE [s2 EXCEPT !.c.current_project = s1.x.n]

srv_create_project_2(s, name) ==
    LET s1 == Call(s, "GetMediaPool", s.c.current_project)
        s2 == [s1 EXCEPT !.c.media_pool = s.c.current_project]
    IN IF Raised(s1) THEN s1
       ELSE Return(s2, RFmt("Project '{name}' created.", name))

\* refresh up to the assignment of self.current_project (server.py 115-117,
\* resolve_api.py 87-91), and from there to its return.
srv_refresh_1(s) ==
    LET s0 == IF s.c.resolve = None THEN _connect_to_resolve(s) ELSE s
        s1 == Call(s0, "GetProjectManager", Obj)
        pm == IF pmAvail THEN Obj ELSE None
        s2 == [s1 EXCEPT !.c.project_manager = pm]
        s3 == IF pm = None THEN AttributeError(s2) ELSE Call(s2, "GetCurrentProject", Obj)
        s4 == [s3 EXCEPT !.c.current_project = s3.xp]
    IN IF ~is_connected(s) THEN Return(s, NotConnected)
       ELSE IF Raised(s1) THEN s1
       ELSE IF Raised(s3) THEN s3
       ELSE s4

srv_refresh_2(s) ==
    LET s5 == Call(s, "GetMediaStorage", Obj)
        s6 == [s5 EXCEPT !.c.media_storage = Obj]
        s7 == Call(s6, "Fusion", Obj)
        s8 == [s7 EXCEPT !.c.fusion = Obj]
        s9 == IF s8.c.current_project # None
              THEN Call(s8, "GetMediaPool", s8.c.current_project)
              ELSE s8
        s10 == [s9 EXCEPT !.c.media_pool = s8.c.current_project]
    IN CASE Raised(s5) -> s5
         [] Raised(s7) -> s7
         [] Raised(s9) -> s9
         [] OTHER -> Return(s10, RStr("Resolve API state refreshed."))

\* The handler of a request, in its two parts.
First(s, h, k) == IF h = "create_project" THEN srv_create_project_1(s, k) ELSE srv_refresh_1(s)
Second(s, h, k) == IF h = "create_project" THEN srv_create_project_2(s, k) ELSE srv_refresh_2(s)

\* The handler has returned or raised.
Over(s) == Raised(s) \/ s.ret # RNone

\* A handler gives the thread back to the event loop between its two parts,
\* as a coroutine function with an await there would.
Awaits_coroutine(h) == TRUE

\* The handlers are declared with def and contain no await (server.py 112,
\* 120): once started, a handler keeps the thread until it returns.
Awaits(h) == FALSE

\* A request arrives and becomes a task of the event loop.
Receive(t) ==
    /\ phase = "serving"
    /\ tasks[t] = Idle
    /\ \E h \in {"create_project", "refresh"} :
       \E k \in IF h = "create_project" THEN Projects ELSE {0} :
         tasks' = [tasks EXCEPT ![t] = [handler |-> h, k |-> k, at |-> "queued"]]
    /\ UNCHANGED <<cacheVars, runtimeVars, hostVars, extVars, writer, obsVars>>

\* The handler run from its start to its end.
Whole(s, h, k) ==
    LET a == First(s, h, k)
    IN IF Over(a) THEN a ELSE Second(a, h, k)

\* The event loop resumes the task of slot t, a request for handler h with
\* argument k: the handler runs until it awaits or ends.  first, second and
\* whole map the frame the task is resumed in to the frame it stops in, for
\* the two parts of the handler and for the handler from start to end.
Resume(t, h, k, first, second, whole, X) ==
    /\ phase = "serving"
    /\ tasks[t].handler = h /\ tasks[t].k = k
    /\ tasks[t].at \in {"queued", "awaiting"}
    /\ \E xs \in X :
         LET s0 == Frame("none", xs)
             started == tasks[t].at = "queued" /\ ~Over(first[s0])
             parks == started /\ Awaits(h)
             end == IF tasks[t].at = "awaiting" THEN second[s0]
                    ELSE IF parks THEN first[s0]
                    ELSE whole[s0]
             finished == tasks[t].at = "awaiting" \/ (started /\ ~parks)
         IN /\ Commit("tool", h, "", end)
            /\ tasks' = [tasks EXCEPT ![t] = IF parks THEN [@ EXCEPT !.at = "awaiting"]
                                              ELSE Idle]
            /\ writer' = [current_project |-> IF started THEN t ELSE writer.current_project,
                          media_pool |-> IF finished THEN t ELSE writer.media_pool]
    /\ UNCHANGED phase

Dispatch(t) ==
    \/ \E k \in Projects :
         Resume(t, "create_project", k,
                [s \in Frames |-> First(s, "create_project", k)],
                [s \in Frames |-> Second(s, "create_project", k)],
                [s \in Frames |-> Whole(s, "create_project", k)],
                One(XProject(k)))
    \/ Resume(t, "refresh", 0,
              [s \in Frames |-> First(s, "refresh", 0)],
              [s \in Frames |-> Second(s, "refresh", 0)],
              [s \in Frames |-> Whole(s, "refresh", 0)],
              None0)

\* ------------------------------------------------------------------ environment
Quiet ==
    /\ kind' = "env" /\ op' = "env" /\ arg' = "" /\ pre' = Cache
    /\ ret' = RNone /\ exc' = "none" /\ calls' = <<>> /\ ans' = RNone
    /\ UNCHANGED dispatchVars

\* The user starts or quits the external application.
AppStartStop ==
    /\ appRunning' = ~appRunning
    /\ Quiet
    /\ UNCHANGED <<cacheVars, runtimeVars, hostVars, pmAvail, extProject>>

\* The application's project manager becomes available or unavailable.
PmToggle ==
    /\ pmAvail' = ~pmAvail
    /\ Quiet
    /\ UNCHANGED <<cacheVars, runtimeVars, hostVars, appRunning, extProject>>

\* The user opens, switches or closes the project in the application.
ProjectSwitch ==
    /\ \E p \in Projects \cup {None} : p # extProject /\ extProject' = p
    /\ Quiet
    /\ UNCHANGED <<cacheVars, runtimeVars, hostVars, appRunning, pmAvail>>

\* A candidate directory is created, with or without the scripting module
\* in it (the application is installed while the process runs).
Install ==
    /\ \E p \in Range(BasePaths(system)) \cup ({environ} \ {"None"}) :
       \E v \in {"dir", "module"} :
         /\ fs[p] = "absent"
         /\ fs' = [fs EXCEPT ![p] = v]
    /\ Quiet
    /\ UNCHANGED <<cacheVars, runtimeVars, system, environ, extVars>>

\* ------------------------------------------------------------------ specification
RelevantPaths(sys, env) == Range(BasePaths(sys)) \cup (IF env = "None" THEN {} ELSE {env})

InitProcess ==
    /\ resolve = None /\ fusion = None /\ project_manager = None
    /\ current_project = None /\ media_storage = None /\ media_pool = None
    /\ phase = "start"
    /\ sys_modules = FALSE
    /\ appRunning \in BOOLEAN
    /\ pmAvail = TRUE
    /\ extProject = None
    /\ kind = "init" /\ op = "init" /\ arg = "" /\ pre = EmptyCache
    /\ ret = RNone /\ exc = "none" /\ calls = <<>> /\ ans = RNone
    /\ tasks = [t \in Slots |-> Idle]
    /\ writer = [current_project |-> 0, media_pool |-> 0]

\* Any host: any operating system, the override set or not, any content of
\* the candidate directories, any of them already on the search path.
AnyHost ==
    /\ system \in Systems
    /\ environ \in {"None", "custom"}
    /\ fs \in [Paths -> {"absent", "dir", "module"}]
    /\ \A p \in Paths \ RelevantPaths(system, environ) : fs[p] = "absent"
    /\ sys_path \in SUBSET RelevantPaths(system, environ)

\* A Linux host without the override, the module installed or not.
LinuxHost ==
    /\ system = "Linux"
    /\ environ = "None"
    /\ fs \in [Paths -> {"absent", "module"}]
    /\ \A p \in Paths \ {"linux"} : fs[p] = "absent"
    /\ sys_path = {}

Init == InitProcess /\ LinuxHost

\* The Bridge process: server.py builds the Connector, then serves requests,
\* while the user changes the project of the external application, which
\* was running or not when the process started.
Next ==
    \/ Construct
    \/ BridgeRequest
    \/ ProjectSwitch

Spec == Init /\ [][Next]_vars

\* The Connector driven directly, method by method.
ApiNext ==
    \/ Construct
    \/ ConnectorCall
    \/ AppStartStop
    \/ PmToggle
    \/ ProjectSwitch

ApiSpec == Init /\ [][ApiNext]_vars

\* Connecting and reconnecting on any host: the constructor, refresh()
\* called on the Connector, the refresh tool of the Bridge.
Reconnect ==
    Do("refresh", "", [s \in Frames |-> refresh(s)], None0)

RefreshRequest ==
    Tl("refresh", "", [s \in Frames |-> srv_refresh(s)], None0)

StatusRequest ==
    Res("system://status", [s \in Frames |-> srv_get_system_status(s)], One(XObj("Timeline")))

ConnectInit == InitProcess /\ AnyHost

ConnectNext ==
    \/ Construct
    \/ Reconnect
    \/ RefreshRequest
    \/ AppStartStop
    \/ ProjectSwitch
    \/ Install

ConnectSpec == ConnectInit /\ [][ConnectNext]_vars

\* Module discovery called on the Connector, as _connect_to_resolve calls
\* it: the value returned is the path found, or None.
Discover ==
    Do("_find_scripting_module", "",
       [s \in Frames |->
          LET f == _find_scripting_module(s)
          IN Return(f, IF f.val = "None" THEN RNone ELSE RStr(f.val))],
       None0)

\* Discovery on any host: the constructor, then discovery and refresh()
\* called again and again, directories being installed in between.
DiscoveryNext ==
    \/ Construct
    \/ Discover
    \/ Reconnect
    \/ Install

DiscoverySpec == ConnectInit /\ [][DiscoveryNext]_vars

\* Connecting on the Linux host: the constructor and refresh(), while the
\* module is installed, the application started and quit, its project
\* manager available or not, and its project switched.
HandlesNext ==
    \/ Construct
    \/ Reconnect
    \/ AppStartStop
    \/ PmToggle
    \/ ProjectSwitch
    \/ Install

HandlesSpec == Init /\ [][HandlesNext]_vars

\* The Bridge process with several requests in flight: the requests that
\* write the handle cache arrive while others wait for the event loop, and
\* the user switches the application's project.
DispatchNext ==
    \/ Construct
    \/ \E t \in Slots : Receive(t)
    \/ \E t \in Slots : Dispatch(t)
    \/ ProjectSwitch

DispatchSpec == Init /\ [][DispatchNext]_vars

\* The Bridge process, the user also starting and quitting the external
\* application while it serves, with a client that, while the Connector is not
\* connected, keeps sending requests, polls of the status resource and calls
\* of the refresh tool among them: server.py's mcp.run() serves every
\* request it is sent.
RetryNext ==
    \/ Next
    \/ AppStartStop

FairSpec ==
    /\ Init
    /\ [][RetryNext]_vars
    /\ WF_vars(resolve = None /\ RefreshRequest)
    /\ WF_vars(resolve = None /\ StatusRequest)
    /\ WF_vars(resolve = None /\ BridgeRequest)

\* ------------------------------------------------------------------ claims
\* The end-to-end scenario of project creation: the create_project tool,
\* then reads of the current project through the Connector accessor and
\* through the project://current resource, while the user may switch or close
\* the project in the application.
CreateRequest ==
    \E k \in Projects : Tl("create_project", "", [s \in Frames |-> srv_create_project(s, k)],
                          One(XProject(k)))

CurrentProjectRead ==
    Do("get_current_project", "", [s \in Frames |-> get_current_project(s)], None0)

CurrentProjectRequest ==
    Res("project://current", [s \in Frames |-> srv_get_current_project(s)], One(XInt))

EndToEndNext ==
    \/ Construct
    \/ CreateRequest
    \/ CurrentProjectRead
    \/ CurrentProjectRequest
    \/ ProjectSwitch

EndToEndSpec == Init /\ [][EndToEndNext]_vars

\* The operations that read or assign the cached handles, called on the
\* Connector and through the Bridge, against every change of the external
\* application and of the host.
MediaPoolRead ==
    Do("get_media_pool", "", [s \in Frames |-> get_media_pool(s)], None0)

CreateCall ==
    \E k \in Projects : Do("create_project", "", [s \in Frames |-> create_project(s, k)],
                          One(XProject(k)))

LoadCall ==
    \E k \in Projects : Do("load_project", "", [s \in Frames |-> load_project(s, k)],
                          One(XProject(k)))

CacheNext ==
    \/ Construct
    \/ Reconnect
    \/ RefreshRequest
    \/ CurrentProjectRead
    \/ MediaPoolRead
    \/ CreateCall
    \/ LoadCall
    \/ CreateRequest
    \/ AppStartStop
    \/ PmToggle
    \/ ProjectSwitch
    \/ Install

CacheSpec == Init /\ [][CacheNext]_vars

\* The functions resolve_api.py defines after the class, called with a
\* Connector as self.
Fn(name, a, run, X) == Step("function", name, a, run, X)

AStill == RObj("Still", Obj)
GivenClip == RObj("TimelineItem", 1)
CurrentVideoItem == RObj("TimelineItem", 2)

\* apply_still(still, clip) with a clip given: the application answers
\* GetCurrentTimeline and ApplyGradeFromStill.
ApplyStillToClip ==
    Fn("apply_still", "clip", [s \in Frames |-> apply_still(s, AStill, GivenClip)],
       {<<RNone>>} \cup {<<ATimeline, b>> : b \in XBool})

\* apply_still(still): the application answers GetCurrentTimeline twice,
\* GetCurrentVideoItem and ApplyGradeFromStill.
ApplyStillToCurrent ==
    Fn("apply_still", "", [s \in Frames |-> apply_still(s, AStill, RNone)],
       {<<RNone>>, <<ATimeline, ATimeline, RNone>>}
       \cup {<<ATimeline, ATimeline, CurrentVideoItem, b>> : b \in XBool})

FunctionsNext ==
    \/ Construct
    \/ CreateCall
    \/ ApplyStillToClip
    \/ ApplyStillToCurrent
    \/ ProjectSwitch

FunctionsSpec == Init /\ [][FunctionsNext]_vars

\* C1: every resource and every tool, in every Connector state and for every
\* response of the external application, ends by returning a string: no
\* exception leaves a handler.  (Checked under Spec.)
C1_HandlersReturnStrings ==
    kind \in {"resource", "tool"} => exc = "none" /\ ret.t = "str"

\* C2: a Connector operation that forwards a call to the external
\* application does not raise to its caller when the external call raises.
\* (Checked under ApiSpec.)
C2_Forwarders ==
    {"open_page", "create_project", "load_project", "save_project",
     "get_current_project", "get_media_pool", "create_timeline",
     "add_items_to_media_pool", "append_to_timeline", "execute_lua"}

C2_ExternalErrorsCaught ==
    kind = "method" /\ op \in C2_Forwarders => exc = "none"

\* C3: constructing the Connector never raises, whatever discovery, the
\* import, the instantiation of the application handle and the derivation
\* of the second-level handles do; when connecting fails the application
\* handle is null.  (Checked under ApiSpec.)
C3_ConnectNeverRaises ==
    kind = "constructor" => exc = "none" /\ phase = "serving"

\* The scripting module is installed in a candidate directory of this host.
Installed == \E p \in Range(BasePaths(system)) : fs[p] = "module"

\* C4: "not connected" is recoverable without restarting the Bridge: if from
\* some point on the Bridge is serving, the module is installed and the
\* application keeps running, then the requests of the client (the refresh
\* tool among them) eventually connect the Connector.  (Checked under
\* FairSpec.)
C4_NotConnectedRecoverable ==
    <>[](phase = "serving" /\ Installed /\ appRunning) => <>(resolve # None)

\* C5: refresh() called with a null application handle, the module installed
\* and the application running, returns with the application handle and the
\* second-level handles set, whatever connect attempts came before.
\* (Checked under ApiSpec.)
C5_RefreshReconnects ==
    (/\ kind = "method" /\ op = "refresh" /\ exc = "none"
     /\ pre.resolve = None
     /\ Installed /\ appRunning /\ pmAvail)
    => /\ resolve # None
       /\ project_manager # None /\ media_storage # None /\ fusion # None
       /\ current_project = extProject /\ media_pool = extProject

\* C6: refresh() is idempotent: a refresh() that directly follows a
\* refresh(), neither raising and nothing changing in between, leaves the
\* six cached handles as the first call left them.  (Checked under
\* ConnectSpec.)
C6_RefreshIdempotent ==
    [][(/\ kind = "method" /\ op = "refresh" /\ exc = "none"
        /\ kind' = "method" /\ op' = "refresh" /\ exc' = "none")
       => cacheVars' = cacheVars]_vars

\* The handle a Connector accessor requires was absent when it was called.
C7_RequiredAbsent ==
    CASE op = "open_page" -> pre.resolve = None
      [] op \in {"get_current_project", "create_project", "load_project"} ->
            pre.project_manager = None
      [] op \in {"get_media_pool", "save_project", "get_project_name",
                 "get_current_timeline", "get_timeline_count",
                 "get_timeline_by_index", "set_current_timeline"} ->
            pre.current_project = None
      [] op \in {"get_mounted_volumes", "get_sub_folders", "get_files"} ->
            pre.media_storage = None
      [] op = "add_items_to_media_pool" ->
            pre.media_storage = None \/ pre.media_pool = None
      [] op \in {"create_timeline", "get_root_folder", "get_current_folder",
                 "add_sub_folder", "append_to_timeline",
                 "create_timeline_from_clips", "import_timeline_from_file"} ->
            pre.media_pool = None
      [] op = "execute_lua" -> pre.fusion = None
      [] op \in {"get_folder_clips", "get_folder_name", "get_folder_sub_folders"} ->
            arg = "None"
      [] OTHER -> FALSE

\* C7: a Connector accessor whose required handle is absent returns a
\* sentinel (False, None, 0 or an empty list) and makes no external call.
\* (Checked under ApiSpec.)
C7_AbsentHandleGivesSentinel ==
    kind = "method" /\ C7_RequiredAbsent
    => /\ exc = "none"
       /\ ret \in {RBool(FALSE), RNone, RInt(0), RList(<<>>)}
       /\ calls = <<>>

\* C8: the operations that read the current project act on the project
\* manager's current project at call time: every call they make on a
\* project is made on the application's current project, and none is made
\* when the application has no project open.  (Checked under ApiSpec.)
C8_ProjectReaders ==
    {"get_project_name", "save_project", "get_current_timeline",
     "get_timeline_count", "get_timeline_by_index", "set_current_timeline",
     "get_media_pool"}

C8_ActsOnCurrentProject ==
    kind = "method" /\ op \in C8_ProjectReaders /\ pre.project_manager # None
    => \A i \in 1..Len(calls) : calls[i][2] = extProject

\* C9: the operations that forward to the media pool forward to the media
\* pool of the application's current project at call time.  (Checked under
\* ApiSpec.)
C9_MediaPoolUsers ==
    {"create_timeline", "append_to_timeline", "create_timeline_from_clips",
     "import_timeline_from_file", "add_sub_folder", "get_root_folder",
     "get_current_folder"}

C9_ForwardsToCurrentMediaPool ==
    kind = "method" /\ op \in C9_MediaPoolUsers /\ pre.project_manager # None
    => \A i \in 1..Len(calls) : calls[i][2] = extProject

\* C10: a tool called with arguments that pass its validation while the
\* Connector is not connected returns exactly "Not connected to DaVinci
\* Resolve." and makes no external call.  (Checked under Spec.)
C10_NotConnectedString ==
    (/\ kind = "tool"
     /\ pre.resolve = None
     /\ (op = "open_page" => Lower(arg) \in valid_pages))
    => ret = NotConnected /\ exc = "none" /\ calls = <<>>

\* C10 happens: create_project on a disconnected Connector.
C10_Witness ==
    /\ kind = "tool" /\ op = "create_project"
    /\ pre.resolve = None /\ resolve = None
    /\ ret = NotConnected /\ calls = <<>>

\* C11: each of the six resources, read while the Connector reports no
\* connection, returns exactly "Not connected to DaVinci Resolve." and makes
\* no external call.  (Checked under Spec.)
C11_ResourcesNotConnected ==
    (kind = "resource" /\ pre.resolve = None)
    => ret = NotConnected /\ exc = "none" /\ calls = <<>>

\* C12: read on a connected Connector while no project is open in the
\* application, and no external call raising, project://current returns "No
\* project open.", timeline://current "No timeline open.", mediapool://current
\* "No media pool available." or "No current folder.", system://status
\* reports both "No project open" and "No timeline open"; none of them
\* raises.  (Checked under Spec.)
C12_NothingOpenResources ==
    {"project://current", "timeline://current", "mediapool://current", "system://status"}

C12_NothingOpen ==
    (/\ kind = "resource" /\ op \in C12_NothingOpenResources
     /\ pre.resolve # None
     /\ extProject = None
     /\ exc # "ExternalError")
    => /\ exc = "none"
       /\ CASE op = "project://current" -> ret = RStr("No project open.")
            [] op = "timeline://current" -> ret = RStr("No timeline open.")
            [] op = "mediapool://current" ->
                 ret \in {RStr("No media pool available."), RStr("No current folder.")}
            [] OTHER -> ret.s = "Connected: Yes|Project: No project open|Timeline: No timeline open"

\* C13: on a connected Connector, no external call raising, a create_project
\* tool call that the application accepts returns "Project '<name>' created.";
\* and a read of the current project (the accessor get_current_project or the
\* resource project://current) that directly follows a create_project call
\* that returned "created" reports the project of that name.  (Checked under
\* EndToEndSpec.)
C13_Created == kind = "tool" /\ op = "create_project" /\ exc = "none"
               /\ ret.s = "Project '{name}' created."

C13_CreateThenRead ==
    [][/\ (/\ kind' = "tool" /\ op' = "create_project"
           /\ pre'.resolve # None
           /\ Truthy(ans')
           /\ exc' # "ExternalError")
          => (exc' = "none" /\ ret'.s = "Project '{name}' created."
              /\ ret'.n = ans'.n)
       /\ (/\ C13_Created
           /\ \/ kind' = "method" /\ op' = "get_current_project"
              \/ kind' = "resource" /\ op' = "project://current"
           /\ exc' # "ExternalError")
          => (exc' = "none" /\ Truthy(ret') /\ ret'.n = ret.n)]_vars

\* C13 happens: a create_project call on a connected Connector that the
\* application accepted and that returned "created", the state from which the
\* read of the current project follows.
C13_Witness ==
    /\ C13_Created
    /\ pre.resolve # None /\ Truthy(ans)
    /\ ret.n = extProject /\ current_project = extProject

\* C14: the open_page tool calls the external OpenPage, once and with the
\* lower-cased name, exactly when the Connector is connected and the
\* lower-cased page name is one of media, edit, fusion, color, fairlight,
\* deliver, and then (OpenPage not raising) returns "Opened '<name>' page." with
\* the name as given; for every other name it returns the "Invalid page"
\* message and makes no external call.  (Checked under Spec.)
C14_PageValidation ==
    (kind = "tool" /\ op = "open_page")
    => /\ IF pre.resolve # None /\ Lower(arg) \in valid_pages
          THEN calls = << <<"OpenPage", Obj, <<RStr(Lower(arg))>>>> >>
          ELSE calls = <<>>
       /\ (pre.resolve # None /\ Lower(arg) \in valid_pages /\ exc # "ExternalError")
          => (exc = "none" /\ ret.s = "Opened '{page_name}' page." /\ ret.l = <<arg>>)
       /\ Lower(arg) \notin valid_pages
          => (/\ exc = "none"
              /\ ret = RStr("Invalid page. Use: media, edit, fusion, color, fairlight, deliver"))

\* C14 happens: open_page("COLOR") on a connected Connector opens the color
\* page.
C14_Witness ==
    /\ kind = "tool" /\ op = "open_page" /\ arg = "COLOR"
    /\ pre.resolve # None /\ exc = "none"
    /\ calls = << <<"OpenPage", Obj, <<RStr("color")>>>> >>
    /\ ret.s = "Opened '{page_name}' page."

\* C14 happens as well for a rejected name: open_page("nonexistent").
C14_WitnessInvalid ==
    /\ kind = "tool" /\ op = "open_page" /\ arg = "nonexistent"
    /\ pre.resolve # None /\ calls = <<>>
    /\ ret.s = "Invalid page. Use: media, edit, fusion, color, fairlight, deliver"

\* C15: a by-name clip tool (set_audio_volume, set_clip_property,
\* set_current_version) called on a connected Connector with the name of an
\* item of the track (the application's timeline holding ItemNames there), no
\* external call raising, makes exactly one mutating call, on the first item
\* of that name and with the caller's values unchanged.  (Checked under Spec.)
C15_ByNameTools == {"set_audio_volume", "set_clip_property", "set_current_version"}

C15_Mutator ==
    [set_audio_volume |-> "SetAudioVolume", set_clip_property |-> "SetProperty",
     set_current_version |-> "SetCurrentVersion"]

C15_Values ==
    [set_audio_volume |-> <<RInt(1)>>, set_clip_property |-> <<AName, RInt(1)>>,
     set_current_version |-> <<RInt(0), RStr("color")>>]

C15_ForwardsToFirstMatch ==
    (/\ kind = "tool" /\ op \in C15_ByNameTools
     /\ pre.resolve # None
     /\ arg \in Range(ItemNames)
     /\ exc # "ExternalError")
    => SelectSeq(calls, LAMBDA c : c[1] = C15_Mutator[op])
         = << <<C15_Mutator[op], FirstNamed(ItemNames, arg), C15_Values[op]>> >>

\* C16: a tool that resolves a name to a handle, called on a connected
\* Connector with a name that no element of the scanned list has, no external
\* call raising, returns a "not found" string and makes no mutating call: the
\* clip tools and apply_still for a clip name that is not on the track; and
\* add_sub_folder, append_to_timeline and create_timeline_from_clips once the
\* application has returned the list they scan.  (Checked under Spec.)
C16_ClipTools == C15_ByNameTools \cup {"apply_still"}

C16_ListCall ==
    [add_sub_folder |-> "Folder.GetSubFolders", append_to_timeline |-> "Folder.GetClips",
     create_timeline_from_clips |-> "Folder.GetClips"]

C16_Mutators ==
    {"SetAudioVolume", "SetProperty", "SetCurrentVersion", "ApplyGradeFromStill",
     "AddSubFolder", "AppendToTimeline", "CreateTimelineFromClips"}

C16_NotFoundStrings ==
    {"Clip '{clip_name}' not found.", "Still '{still_name}' not found.",
     "Parent folder '{parent_folder_name}' not found."}

C16_NoMatchCase ==
    /\ kind = "tool" /\ pre.resolve # None /\ arg = "ClipZ"
    /\ \/ op \in C16_ClipTools /\ exc # "ExternalError"
       \/ /\ op \in DOMAIN C16_ListCall
          /\ \E i \in 1..Len(calls) : calls[i][1] = C16_ListCall[op]
          /\ exc \notin {"ExternalError", "TypeError"}

C16_NoMatchNotFound ==
    C16_NoMatchCase
    => /\ exc = "none"
       /\ ret.s \in C16_NotFoundStrings
       /\ \A i \in 1..Len(calls) : calls[i][1] \notin C16_Mutators

\* The path the discovery rule selects on this host: the override when it
\* names an existing path, else the first candidate of the operating
\* system's list that exists, else none.
C17_Selected ==
    LET paths == BasePaths(system)
        there == {j \in 1..Len(paths) : Exists(paths[j])}
    IN IF environ # "None" /\ Exists(environ) THEN RStr(environ)
       ELSE IF there = {} THEN RNone
       ELSE RStr(paths[CHOOSE j \in there : \A k \in there : j <= k])

\* C17: module discovery returns the override path when the environment
\* variable names an existing path, else the first candidate of the
\* operating system's list that exists on disk, and None only if none
\* exists: the result is a function of the environment variable, the
\* operating system and the filesystem alone.  (Checked under DiscoverySpec.)
C17_DiscoveryByRule ==
    (kind = "method" /\ op = "_find_scripting_module") => ret = C17_Selected

\* C18: whenever module discovery returns a path, from the override or from
\* the candidate list, that path is on the module search path when
\* discovery returns.  (Checked under DiscoverySpec.)
C18_FoundPathSearched ==
    (kind = "method" /\ op = "_find_scripting_module" /\ ret # RNone)
    => ret.s \in sys_path



\* A connect has just succeeded: the constructor, refresh() or the refresh
\* tool found the application handle null and returned, without raising,
\* with it set.
C19_Connected ==
    /\ \/ kind = "constructor"
       \/ kind \in {"method", "tool"} /\ op = "refresh"
    /\ pre.resolve = None
    /\ exc = "none"
    /\ resolve # None

\* C19: after a successful connect (application handle non-null) the
\* second-level handles are derived from it: project manager, media storage
\* and compositing engine are the application's, the current project is the
\* project manager's current project, and the media pool is that project's
\* media pool, null exactly when no project is open.  (Checked under
\* HandlesSpec.)
C19_HandlesDerived ==
    C19_Connected
    => /\ project_manager = Obj /\ media_storage = Obj /\ fusion = Obj
       /\ current_project = extProject
       /\ media_pool = current_project
       /\ (media_pool = None) <=> (extProject = None)

C19_Witness ==
    /\ C19_Connected
    /\ kind = "method"
    /\ extProject # None
    /\ media_pool = extProject



\* The Connector accessors whose documented result is a list, and those
\* whose documented result is a bool and comes from the external call.
C20_ListAccessors ==
    {"get_mounted_volumes", "get_sub_folders", "get_files", "add_items_to_media_pool",
     "get_folder_clips", "get_folder_sub_folders", "get_timeline_items",
     "get_gallery_albums"}

C20_BoolAccessors == {"save_project", "set_current_timeline", "append_to_timeline"}

\* C20: result normalization: a Connector accessor whose documented result
\* is a list returns the empty list when the external call returns a falsy
\* value and passes a non-empty external result through unchanged; a boolean
\* accessor returns False for an external falsy result.  (Checked under
\* ApiSpec.)
C20_Normalized ==
    (kind = "method" /\ exc = "none" /\ calls # <<>>)
    => /\ op \in C20_ListAccessors
          => ret = IF Truthy(ans) THEN ans ELSE RList(<<>>)
       /\ (op \in C20_BoolAccessors /\ ~Truthy(ans)) => ret = RBool(FALSE)

\* The Connector accessors that forward to the external application, and
\* those among them that take no argument.
C21_Forwarders ==
    {"open_page", "save_project", "get_project_name", "create_timeline",
     "get_current_timeline", "get_timeline_count", "get_timeline_by_index",
     "set_current_timeline", "get_mounted_volumes", "get_sub_folders", "get_files",
     "add_items_to_media_pool", "get_root_folder", "get_current_folder",
     "add_sub_folder", "get_folder_clips", "get_folder_name",
     "get_folder_sub_folders", "append_to_timeline", "create_timeline_from_clips",
     "import_timeline_from_file", "execute_lua", "start_render",
     "add_timeline_marker", "set_playhead_position"}

C21_NoArgument ==
    {"save_project", "get_project_name", "get_current_timeline", "get_timeline_count",
     "get_mounted_volumes", "get_root_folder", "get_current_folder",
     "get_folder_clips", "get_folder_name", "get_folder_sub_folders"}

\* C21: a Connector accessor whose guard passes calls exactly one method of
\* the external application and passes the caller's arguments through
\* unchanged: open_page passes the page name it was given, the getters
\* without argument pass none.  (Checked under ApiSpec.)
C21_ForwardsUnchanged ==
    (kind = "method" /\ op \in C21_Forwarders /\ exc = "none" /\ calls # <<>>)
    => /\ Len(calls) = 1
       /\ op = "open_page" => calls[1][3] = <<RStr(arg)>>
       /\ op \in C21_NoArgument => calls[1][3] = <<>>

C23_ConnectionMonotonic ==
    [][resolve # None => resolve' # None]_vars

\* refresh() has returned on a connected Connector after the application
\* quit.
C23_Witness ==
    /\ kind = "method" /\ op = "refresh"
    /\ pre.resolve # None
    /\ ~appRunning
    /\ resolve # None

\* C24: in every reachable state the cached media pool is consistent with
\* the cached current project: with a null current project the media pool
\* is null, and a non-null media pool is the media pool of the cached
\* current project.  (Checked under CacheSpec.)
C24_PoolOfCurrentProject ==
    /\ current_project = None => media_pool = None
    /\ media_pool # None => media_pool = current_project

\* create_project or load_project has succeeded: the external call returned
\* a project and the method returned without raising.
C25_Opened ==
    /\ kind = "method" /\ op \in {"create_project", "load_project"}
    /\ exc = "none"
    /\ Len(calls) >= 1 /\ calls[1][1] \in {"CreateProject", "LoadProject"}
    /\ Truthy(ans)

\* C25: when create_project or load_project succeeds, the external call
\* returning a project, the cached current project becomes the returned
\* project, the cached media pool that project's media pool, and the
\* operation returns True.  (Checked under CacheSpec.)
C25_OpenedProjectCached ==
    C25_Opened
    => /\ current_project = ans.n
       /\ media_pool = ans.n
       /\ ret = RBool(TRUE)

\* A second project has been opened over a first one.
C25_Witness ==
    /\ C25_Opened
    /\ op = "load_project"
    /\ pre.current_project # None
    /\ pre.current_project # ans.n
    /\ current_project = ans.n

\* create_project or load_project has failed: the project manager was
\* absent, or the external call returned a falsy value.
C26_Failed ==
    /\ kind = "method" /\ op \in {"create_project", "load_project"}
    /\ exc = "none"
    /\ \/ pre.project_manager = None
       \/ Len(calls) = 1 /\ ~Truthy(ans)

\* C26: when create_project or load_project fails, the project manager
\* absent or the external call returning a falsy value, it returns False
\* and leaves every cached handle of the Connector as it was.  (Checked
\* under CacheSpec.)
C26_FailureLeavesCache ==
    C26_Failed => (ret = RBool(FALSE) /\ Cache = pre)

\* The application refused to load a project while another one was cached.
C26_Witness ==
    /\ C26_Failed
    /\ op = "load_project"
    /\ calls # <<>>
    /\ pre.current_project # None

\* The external call that applies the grade of the still to the item.
C27_Applied(item) == <<"ApplyGradeFromStill", item.n, <<AStill>>>>

\* C27: apply_still(still, clip) with a still and a clip given applies the
\* grade to the clip given, whether or not a current timeline exists; the
\* current video item of the current timeline is the target only when no
\* clip is given.  (Checked under FunctionsSpec.)
C27_AppliesToGivenClip ==
    (kind = "function" /\ op = "apply_still" /\ exc = "none")
    => /\ arg = "clip" =>
            /\ calls # <<>>
            /\ calls[Len(calls)] = C27_Applied(GivenClip)
       /\ \A i \in 1..Len(calls) :
            calls[i] = C27_Applied(CurrentVideoItem) => arg = ""

\* C28: the execute_lua tool reports failure only when the script was not
\* run: on a connected Connector with a compositing-engine handle, when the
\* script was forwarded to Execute and Execute returned without raising,
\* whatever value it returned, the tool returns a "Lua script executed: ..."
\* string.  (Checked under Spec.)
C28_ExecutedIsReported ==
    (/\ kind = "tool" /\ op = "execute_lua"
     /\ pre.resolve # None /\ pre.fusion # None
     /\ exc = "none"
     /\ calls = << <<"Execute", Obj, <<AName>>>> >>)
    => ret.s = "Lua script executed: {result}"

\* The names of the external calls of the last operation, in order.
C29_CallNames == [i \in 1..Len(calls) |-> calls[i][1]]

C30_Index == CHOOSE i \in TimelineIndexes : IndexName[i] = arg

\* C30: the set_current_timeline tool calls SetCurrentTimeline only with the
\* timeline GetTimelineByIndex returned for the requested index in the same
\* request; when there is no timeline at the index, or no project open, it
\* returns "No timeline found at index <n>." and does not call
\* SetCurrentTimeline.  (Checked under Spec.)
C30_SetsTheTimelineFound ==
    (kind = "tool" /\ op = "set_current_timeline" /\ pre.resolve # None /\ exc = "none")
    => /\ Len(calls) <= 2
       /\ Len(calls) >= 1 =>
            calls[1] = <<"GetTimelineByIndex", pre.current_project, <<RInt(C30_Index)>>>>
       /\ Len(calls) = 2 =>
            calls[2] = <<"SetCurrentTimeline", pre.current_project,
                         <<TimelineAt(C30_Index)>>>>
       /\ Len(calls) < 2 =>
            ret = RFmt("No timeline found at index {timeline_index}.", C30_Index)

\* The timeline at index 2 was found and made the current one.
C30_Witness ==
    /\ kind = "tool" /\ op = "set_current_timeline" /\ exc = "none"
    /\ arg = "2"
    /\ Len(calls) = 2
    /\ ret = RFmt("Timeline at index {timeline_index} set as current.", 2)

\* There was no timeline at the index.
C30_WitnessNone ==
    /\ kind = "tool" /\ op = "set_current_timeline" /\ exc = "none"
    /\ Len(calls) = 1
    /\ ret = RFmt("No timeline found at index {timeline_index}.", C30_Index)

============================================================================
